---- MODULE Spec2Model ----
(***************************************************************************)
(* Verification model of the gRPC task server (TaskService.js), its        *)
(* streaming session registry and broadcaster, and of the round-robin      *)
(* client (client.js).                                                     *)
(***************************************************************************)
EXTENDS Integers, Sequences, FiniteSets, TLC

(***************************************************************************)
(* Bounds of the model.                                                    *)
(***************************************************************************)
MaxEvents == 3          \* calls, requests and signals the server gets (Spec)
MaxSessionEvents == 4   \* the same in the session scenarios (SessionSpec)
MaxClock == 1           \* seconds the server clock advances
MaxServers == 3         \* replica addresses of the client
MaxClientCalls == 4     \* calls made through the client
MaxPriorityCalls == 2   \* creates of the priority scenarios (PrioritySpec)
MaxCode == 4            \* largest priority code tried besides 99
MaxRows == 3            \* rows the tasks table holds at start (StatsSpec)
MaxRoundTripEvents == 3 \* requests of the round-trip scenarios (RoundTripSpec)
MaxPartitionEvents == 4 \* messages, requests and signals of the partition scenarios (PartitionSpec)
MaxChatEvents == 6      \* chat calls, messages and signals of the chat scenarios (ChatSpec)
MaxRegisterCalls == 3   \* Register calls of the registration scenarios (RegisterSpec)
MaxCredentialCalls == 2 \* calls of the credential scenarios (CredentialSpec)
MaxHandlerCalls == 2    \* calls of the unary handler scenarios (HandlerSpec)
MaxStatsEvents == 2     \* requests of the statistics scenarios (StatsSpec)

(***************************************************************************)
(* Optional values of JavaScript: undefined, null, or a value.             *)
(***************************************************************************)
Undefined == [t |-> "undefined", v |-> <<>>]
Null == [t |-> "null", v |-> <<>>]
Some(x) == [t |-> "value", v |-> <<x>>]
IsNullish(o) == o.t \in {"undefined", "null"}
Val(o) == o.v[1]

(***************************************************************************)
(* grpc.status codes used by the handlers.                                 *)
(***************************************************************************)
OK == "OK"
INVALID_ARGUMENT == "INVALID_ARGUMENT"
NOT_FOUND == "NOT_FOUND"
INTERNAL == "INTERNAL"
PERMISSION_DENIED == "PERMISSION_DENIED"
ALREADY_EXISTS == "ALREADY_EXISTS"
UNAUTHENTICATED == "UNAUTHENTICATED"

(***************************************************************************)
(* Tokens.  jwt.verify decodes a signed token to its payload and throws on *)
(* anything else (missing, malformed, expired, wrong signature).           *)
(***************************************************************************)
jwtVerify(token) ==
    CASE token = "jwt-u1" -> [ok |-> TRUE, id |-> "u1"]
      [] token = "jwt-u2" -> [ok |-> TRUE, id |-> "u2"]
      [] OTHER -> [ok |-> FALSE, id |-> ""]

\* authHeader.replace('Bearer ', ''): a header is a sequence of parts, and the
\* first part 'Bearer ' is taken out; what is left is the token when it is
\* one part
StripBearer(authHeader) ==
    LET at == {i \in DOMAIN authHeader : authHeader[i] = "Bearer "}
        rest == IF at = {} THEN authHeader
                ELSE LET i == CHOOSE x \in at : \A y \in at : x <= y
                     IN  SubSeq(authHeader, 1, i - 1) \o
                         SubSeq(authHeader, i + 1, Len(authHeader))
    IN  IF Len(rest) = 1 THEN rest[1] ELSE "garbage"

\* AuthInterceptor: the status it answers with, or OK when it lets the
\* call through
AuthInterceptor(authorization) ==
    IF authorization.t # "value" \/ Val(authorization) = <<>> THEN UNAUTHENTICATED
    ELSE IF ~jwtVerify(StripBearer(Val(authorization))).ok THEN UNAUTHENTICATED
    ELSE OK

\* start(metadata, listener, next) of the intercepting call: authHeader is
\* metadata.get('authorization')[0], call is options.call (undefined when the
\* options carry no call, as the interceptor options of grpc-js do).  The
\* assignment options.call.user = decoded is inside the try block, so the
\* TypeError it throws on an undefined call is caught like a bad token.
\* statuses: what listener.onReceiveStatus was given, in order; next: whether
\* next(metadata, listener) was invoked; call: options.call afterwards
start(authHeader, call) ==
    IF authHeader.t # "value" \/ Val(authHeader) = <<>>
    THEN [statuses |-> <<UNAUTHENTICATED>>, next |-> FALSE, call |-> call]
    ELSE LET decoded == jwtVerify(StripBearer(Val(authHeader)))
         IN  IF ~decoded.ok \/ call.t # "value"
             THEN [statuses |-> <<UNAUTHENTICATED>>, next |-> FALSE, call |-> call]
             ELSE [statuses |-> <<>>, next |-> TRUE,
                   call |-> Some([user |-> decoded.id])]

\* the interceptors GrpcServer gives its grpc.Server: none
ServerInterceptors == {}

\* what the server's interceptors make of a call before its handler runs
Intercept(authorization) ==
    IF "AuthInterceptor" \in ServerInterceptors THEN AuthInterceptor(authorization)
    ELSE OK

\* a validateToken that takes every token for one of u1
validateTokenAny(token) == [ok |-> TRUE, id |-> "u1", code |-> OK]

\* TaskService.validateToken: the payload, or an error with code UNAUTHENTICATED
validateToken(token) ==
    LET r == jwtVerify(token)
    IN  IF r.ok THEN [ok |-> TRUE, id |-> r.id, code |-> OK]
        ELSE [ok |-> FALSE, id |-> "", code |-> UNAUTHENTICATED]

(***************************************************************************)
(* Strings are sequences of characters; String.prototype.trim.             *)
(***************************************************************************)
RECURSIVE TrimLeft(_)
TrimLeft(s) == IF s # <<>> /\ Head(s) = " " THEN TrimLeft(Tail(s)) ELSE s

RECURSIVE TrimRight(_)
TrimRight(s) ==
    IF s # <<>> /\ s[Len(s)] = " " THEN TrimRight(SubSeq(s, 1, Len(s) - 1)) ELSE s

Trim(s) == TrimRight(TrimLeft(s))

(***************************************************************************)
(* ProtoLoader priority conversions.                                       *)
(***************************************************************************)
priorityMap == <<"low", "medium", "high", "urgent">>

\* priorityMap[priorityValue] without the || 'medium'
convertFromPriorityNoDefault(priorityValue) ==
    IF priorityValue.t = "value" /\ Val(priorityValue) \in 0..3
    THEN priorityMap[Val(priorityValue) + 1]
    ELSE "undefined"

\* priorityMap[priorityValue] || 'medium' on a 0-based array
convertFromPriority(priorityValue) ==
    IF priorityValue.t = "value" /\ Val(priorityValue) \in 0..3
    THEN priorityMap[Val(priorityValue) + 1]
    ELSE "medium"

\* priorityMap[priority] || 1 : the code 0 of 'low' is falsy
convertPriority(priority) ==
    LET code == CASE priority = "low" -> 0
                  [] priority = "medium" -> 1
                  [] priority = "high" -> 2
                  [] priority = "urgent" -> 3
                  [] OTHER -> 0
    IN  IF code = 0 THEN 1 ELSE code

(***************************************************************************)
(* Map helpers: a JavaScript Map is a function on its set of keys.  Keys   *)
(* here are the ids drawn from uuidv4, which increase with insertion, so   *)
(* iteration in insertion order is iteration in key order.                 *)
(***************************************************************************)
EmptyMap == [x \in {} |-> 0]
MapSet(m, k, v) == [x \in (DOMAIN m) \cup {k} |-> IF x = k THEN v ELSE m[x]]

\* the lists collection before any list is created
NoLists == [documents |-> EmptyMap, copies |-> TRUE]

\* Map.prototype.clear in place of delete
MapClear(m, k) == EmptyMap

\* Map.prototype.delete
MapDelete(m, k) == [x \in (DOMAIN m) \ {k} |-> m[x]]

Range(f) == {f[x] : x \in DOMAIN f}

VARIABLES
    tasks,              \* the tasks table: id -> row
    users,              \* the users table: id -> row
    listsDb,            \* ListService: the lists collection of its JsonDatabase
    commits,            \* number of committed writes to the tasks table
    streamingSessions,  \* Map streamId -> call (StreamNotifications)
    taskStreams,        \* Map streamId -> call (StreamTasks)
    chatClients,        \* Map clientId -> call (Chat)
    calls,              \* the streaming calls opened so far
    reqs,               \* the unary calls made so far
    uuid,               \* ids handed out by uuidv4
    now,                \* the server clock, Math.floor(Date.now() / 1000)
    published,          \* history: the events notifyStreams was invoked with
    chatSent,           \* history: the chat messages relayed
    budget,             \* inputs the environment may still send
    servers,            \* GrpcClient: the replica addresses given to the constructor
    authClients,        \* GrpcClient: one AuthService stub per address
    taskClients,        \* GrpcClient: one TaskService stub per address
    currentAuthIndex,   \* GrpcClient: rotation cursor of the auth stubs
    currentTaskIndex,   \* GrpcClient: rotation cursor of the task stubs
    currentIndex,       \* GrpcClient: the field initialize() sets
    currentToken,       \* GrpcClient: the token of the last successful login
    initialized,        \* history: initialize() has completed
    picks               \* history: the stubs handed out, in order

serverVars == <<tasks, users, listsDb, commits, streamingSessions, taskStreams, chatClients, calls,
                reqs, uuid, now, published, chatSent, budget>>
clientVars == <<servers, authClients, taskClients, currentAuthIndex, currentTaskIndex,
                currentIndex, currentToken, initialized, picks>>
vars == <<serverVars, clientVars>>

(***************************************************************************)
(* Rows of the tasks table and the Task model.                             *)
(***************************************************************************)
NoRow == [id |-> 0, userId |-> "", title |-> <<>>, description |-> <<>>,
          completed |-> FALSE, priority |-> "", ver |-> 0]

\* SELECT * FROM tasks WHERE id = ?, whoever the owner
dbGetById(table, task_id, userId) ==
    IF task_id \in DOMAIN table THEN table[task_id] ELSE NoRow

\* SELECT * FROM tasks WHERE userId = ?  LIMIT 1, whatever the id asked for
dbGetAny(table, task_id, userId) ==
    IF \E k \in DOMAIN table : table[k].userId = userId
    THEN table[CHOOSE k \in DOMAIN table :
                    /\ table[k].userId = userId
                    /\ \A j \in DOMAIN table : table[j].userId = userId => k <= j]
    ELSE NoRow

\* SELECT * FROM tasks WHERE id = ? AND userId = ?  (undefined when no row)
dbGet(table, task_id, userId) ==
    IF task_id \in DOMAIN table /\ table[task_id].userId = userId
    THEN table[task_id] ELSE NoRow

\* SELECT * FROM tasks WHERE userId = ?  (rows in insertion order)
dbGetAll(table, userId) == {k \in DOMAIN table : table[k].userId = userId}

\* SELECT COUNT(*) FROM tasks, whoever the owner
dbCountAll(table, userId, completed) ==
    Cardinality({k \in DOMAIN table : table[k].completed \in completed})

\* SELECT COUNT(*) as count FROM tasks WHERE userId = ? [AND completed = ?]
dbCount(table, userId, completed) ==
    Cardinality({k \in DOMAIN table :
                    table[k].userId = userId /\ table[k].completed \in completed})

\* Number(x.toFixed(4)) of the quotient n / d, in ten-thousandths: the
\* nearest multiple of 0.0001, halves upwards
toFixed4(n, d) == (2 * 10000 * n + d) \div (2 * d)

\* Task.validate() on the data createTask builds
TaskValidate(taskData) ==
    /\ taskData.title # <<>>
    /\ taskData.priority \in {"low", "medium", "high", "urgent"}

\* Task.toProtobuf(): the wire form of a task
toProtobuf(task) ==
    [id |-> task.id, title |-> task.title, description |-> task.description,
     completed |-> task.completed, priority |-> convertPriority(task.priority),
     user_id |-> task.userId]

(***************************************************************************)
(* Streaming calls.  call.write throws on a call whose transport fails;    *)
(* after the server's own call.end() nothing written reaches the peer.     *)
(* Every write is logged with its outcome and the mutation, snapshot or    *)
(* chat message it comes from.                                             *)
(***************************************************************************)
NewCall(kind, token, failing, id) ==
    [kind |-> kind, token |-> token, failing |-> failing, id |-> id,
     ended |-> FALSE, sigs |-> 0, snap |-> "none", log |-> <<>>]

\* call.write(msg) with the message put before those written so far
callWriteFirst(call, msg, src) ==
    [call EXCEPT !.log = <<[m |-> msg, src |-> src,
                            st |-> IF call.failing THEN "threw"
                                   ELSE IF call.ended THEN "dropped" ELSE "ok"]>> \o @]

callWrite(call, msg, src) ==
    [call EXCEPT !.log = Append(@,
        [m |-> msg, src |-> src,
         st |-> IF call.failing THEN "threw"
                ELSE IF call.ended THEN "dropped" ELSE "ok"])]

callEnd(call) == [call EXCEPT !.ended = TRUE]

\* the entries of a Map a for..of loop with a throwing body gets to
ReachedNoCatch(sessions, cs) ==
    {k \in DOMAIN sessions :
        \A j \in DOMAIN sessions : j < k => ~cs[sessions[j]].failing}

\* for (const [callId, call] of sessions.entries()) { try { call.write } catch {} }
\* the catch is inside the loop body: a throwing write does not end the loop
Reached(sessions, cs) == DOMAIN sessions

\* whether an exception leaves notifyStreams
NotifyThrowsUncaught(cs) ==
    \E k \in DOMAIN streamingSessions \cup DOMAIN taskStreams :
        \/ k \in DOMAIN streamingSessions /\ cs[streamingSessions[k]].failing
        \/ k \in DOMAIN taskStreams /\ cs[taskStreams[k]].failing

NotifyThrows(cs) == FALSE

\* an event whose type does not follow the mutation
NotificationUntyped(type, task) ==
    [type |-> "TASK_UPDATED", task |-> toProtobuf(task), timestamp |-> now]

\* the event streamNotifications sessions get
Notification(type, task) ==
    [type |-> type, task |-> toProtobuf(task), timestamp |-> now]

\* a notifyStreams that also writes the event to the chat sessions
notifyStreamsAndChat(type, task, src) ==
    LET hitN == {streamingSessions[k] : k \in Reached(streamingSessions, calls)}
            \cup {chatClients[k] : k \in Reached(chatClients, calls)}
        hitT == {taskStreams[k] : k \in Reached(taskStreams, calls)}
    IN  [c \in DOMAIN calls |->
            LET c1 == IF c \in hitN
                      THEN callWrite(calls[c], Notification(type, task), src)
                      ELSE calls[c]
            IN  IF c \in hitT THEN callWrite(c1, toProtobuf(task), src) ELSE c1]

\* notifyStreams(type, task) with each write made twice
notifyStreamsTwice(type, task, src) ==
    LET hitN == {streamingSessions[k] : k \in Reached(streamingSessions, calls)}
        hitT == {taskStreams[k] : k \in Reached(taskStreams, calls)}
    IN  [c \in DOMAIN calls |->
            IF c \in hitN
            THEN callWrite(callWrite(calls[c], Notification(type, task), src),
                           Notification(type, task), src)
            ELSE IF c \in hitT
            THEN callWrite(callWrite(calls[c], toProtobuf(task), src),
                           toProtobuf(task), src)
            ELSE calls[c]]

\* notifyStreams(type, task): the calls after both loops
notifyStreams(type, task, src) ==
    LET hitN == {streamingSessions[k] : k \in Reached(streamingSessions, calls)}
        hitT == {taskStreams[k] : k \in Reached(taskStreams, calls)}
    IN  [c \in DOMAIN calls |->
            LET c1 == IF c \in hitN
                      THEN callWrite(calls[c], Notification(type, task), src)
                      ELSE calls[c]
            IN  IF c \in hitT THEN callWrite(c1, toProtobuf(task), src) ELSE c1]

Event(type, task, r) ==
    [type |-> type, task |-> task, timestamp |-> now, req |-> r,
     notif |-> Range(streamingSessions), feed |-> Range(taskStreams)]

(***************************************************************************)
(* Unary handlers.  Each await on the database is a step of its own.       *)
(***************************************************************************)
NoUpdate == [title |-> <<>>, description |-> <<>>, completed |-> FALSE, priority |-> ""]

\* call.request of a call that carries no task fields, and no metadata
NoRequest == [title |-> Undefined, description |-> Undefined, priority |-> Undefined,
              authorization |-> Undefined, completed |-> Undefined]

\* the task of a response that carries none
NoTask == [id |-> 0, title |-> <<>>, description |-> <<>>, completed |-> FALSE,
           priority |-> 0, user_id |-> ""]

\* userData of a call that builds no user
NoUser == [id |-> 0, email |-> "", username |-> "", password |-> ""]

NoStats == [total |-> 0, completed |-> 0, pending |-> 0, completion_rate |-> 0]

NewReq(op, token) ==
    [op |-> op, pc |-> "done", token |-> token, user |-> "", task_id |-> 0,
     task |-> NoRow, upd |-> NoUpdate, commit |-> 0, ev |-> 0, resp |-> OK,
     feed |-> {}, fault |-> FALSE, request |-> NoRequest, stats |-> NoStats,
     at |-> 0, seen |-> 0, out |-> NoTask, rows |-> {}, userData |-> NoUser,
     callbacks |-> 0]

\* a call answered with callback(error) before its first await on the
\* database
Failed(op, token, code) ==
    [NewReq(op, token) EXCEPT !.resp = code, !.callbacks = 1]

\* what a rejected database call carries as error.code
DbErrorCodes == {"", "SQLITE_BUSY"}

\* grpcError.code = error.code || grpc.status.INTERNAL
CatchCode(code) == IF code = "" THEN INTERNAL ELSE code

IsTruthyString(o) == o.t = "value" /\ Val(o) # <<>>

\* the task-feed sessions of a user that are registered now
FeedOf(user) ==
    {c \in Range(taskStreams) : validateToken(calls[c].token).id = user}

unaryUnchanged == <<streamingSessions, taskStreams, chatClients, now, chatSent,
                    users, listsDb, clientVars>>

\* the CreateTask handler GrpcServer.initialize registers, on a call with
\* the metadata entry authorization and the request {token, title,
\* description, priority}: createTask reads call.request only
CreateTask(authorization, token, title, description, priority) ==
    /\ budget > 0 /\ budget' = budget - 1
    /\ LET user == validateToken(token)
           taskData == [id |-> uuid + 1,
                        title |-> IF IsTruthyString(title) THEN Trim(Val(title)) ELSE <<>>,
                        description |-> IF IsTruthyString(description)
                                        THEN Val(description) ELSE <<>>,
                        priority |-> convertFromPriority(priority),
                        userId |-> user.id, completed |-> FALSE, ver |-> 0]
           request == [title |-> title, description |-> description,
                       priority |-> priority, authorization |-> authorization,
                       completed |-> Undefined]
           Answer(req) == reqs' = Append(reqs, [req EXCEPT !.request = request])
       IN  IF Intercept(authorization) # OK
           THEN Answer(Failed("create", token, Intercept(authorization))) /\ uuid' = uuid
           ELSE IF ~user.ok
           THEN Answer(Failed("create", token, user.code)) /\ uuid' = uuid
           ELSE IF ~IsTruthyString(title) \/ Trim(Val(title)) = <<>>
           THEN Answer(Failed("create", token, INVALID_ARGUMENT)) /\ uuid' = uuid
           ELSE IF ~TaskValidate(taskData)
           THEN Answer(Failed("create", token, INVALID_ARGUMENT)) /\ uuid' = uuid + 1
           ELSE /\ Answer([NewReq("create", token) EXCEPT
                                !.pc = "run", !.user = user.id,
                                !.task_id = taskData.id, !.task = taskData])
                /\ uuid' = uuid + 1
    /\ UNCHANGED <<tasks, commits, calls, published, unaryUnchanged>>

\* createTask on a call without metadata
createTask(token, title, description, priority) ==
    CreateTask(Undefined, token, title, description, priority)

\* the database executes the INSERT (or rejects it)
createTaskInsert(r) ==
    /\ reqs[r].op = "create" /\ reqs[r].pc = "run"
    /\ \/ /\ tasks' = MapSet(tasks, reqs[r].task_id,
                             [reqs[r].task EXCEPT !.ver = commits + 1])
          /\ commits' = commits + 1
          /\ reqs' = [reqs EXCEPT ![r].pc = "notify", ![r].commit = commits + 1,
                                  ![r].feed = FeedOf(reqs[r].user)]
    /\ UNCHANGED <<calls, uuid, published, unaryUnchanged>>
    /\ UNCHANGED budget

\* a continuation that answers without calling notifyStreams
finishSilent(r, type, task, ver) ==
    /\ UNCHANGED <<calls, published>>
    /\ reqs' = [reqs EXCEPT ![r].pc = "done", ![r].callbacks = @ + 1,
                            ![r].out = IF type = "TASK_DELETED"
                                       THEN NoTask ELSE toProtobuf(task)]

\* the continuation of a mutating handler: notifyStreams, then callback
finish(r, type, task, ver) ==
    /\ calls' = notifyStreams(type, task, [k |-> "event", n |-> Len(published) + 1,
                                            ver |-> ver])
    /\ published' = Append(published, Event(type, task, r))
    /\ reqs' = [reqs EXCEPT ![r].pc = "done", ![r].callbacks = @ + 1, ![r].ev = Len(published) + 1,
                            ![r].resp = IF NotifyThrows(calls)
                                        THEN INTERNAL ELSE OK,
                            ![r].out = IF type = "TASK_DELETED" \/ NotifyThrows(calls)
                                       THEN NoTask ELSE toProtobuf(task)]

createTaskFinish(r) ==
    /\ reqs[r].op = "create" /\ reqs[r].pc = "notify"
    /\ finish(r, "TASK_CREATED", reqs[r].task, reqs[r].commit)
    /\ UNCHANGED <<tasks, commits, uuid, unaryUnchanged>>
    /\ UNCHANGED budget

\* an updateData whose priority is priorityMap[priority] without the default
updateDataNoDefault(existingTask, title, description, completed, priority) ==
    [title |-> IF IsTruthyString(title) THEN Val(title) ELSE existingTask.title,
     description |-> IF IsNullish(description) THEN existingTask.description
                     ELSE Val(description),
     completed |-> IF IsNullish(completed) THEN existingTask.completed
                   ELSE Val(completed),
     priority |-> IF priority.t # "undefined" THEN convertFromPriorityNoDefault(priority)
                  ELSE existingTask.priority]

\* updateData of updateTask, from the request and the row read first
updateData(existingTask, title, description, completed, priority) ==
    [title |-> IF IsTruthyString(title) THEN Val(title) ELSE existingTask.title,
     description |-> IF IsNullish(description) THEN existingTask.description
                     ELSE Val(description),
     completed |-> IF IsNullish(completed) THEN existingTask.completed
                   ELSE Val(completed),
     priority |-> IF priority.t # "undefined" THEN convertFromPriority(priority)
                  ELSE existingTask.priority]

updateTask(token, task_id, title, description, completed, priority) ==
    /\ budget > 0 /\ budget' = budget - 1
    /\ LET user == validateToken(token)
           existingTask == dbGet(tasks, task_id, user.id)
           request == [NoRequest EXCEPT !.title = title, !.description = description,
                                        !.completed = completed, !.priority = priority]
           Answer(req) == reqs' = Append(reqs, [req EXCEPT !.request = request])
       IN  IF ~user.ok
           THEN Answer(Failed("update", token, user.code))
           ELSE IF existingTask = NoRow
           THEN Answer([Failed("update", token, NOT_FOUND) EXCEPT
                            !.user = user.id, !.task_id = task_id])
           ELSE Answer([NewReq("update", token) EXCEPT
                            !.pc = "run", !.user = user.id, !.task_id = task_id,
                            !.task = existingTask,
                            !.upd = updateData(existingTask, title, description,
                                               completed, priority)])
    /\ UNCHANGED <<tasks, commits, calls, uuid, published, unaryUnchanged>>

\* the database executes the UPDATE ... WHERE id = ? AND userId = ?
updateTaskRun(r) ==
    /\ reqs[r].op = "update" /\ reqs[r].pc = "run"
    /\ LET row == dbGet(tasks, reqs[r].task_id, reqs[r].user)
           u == reqs[r].upd
       IN  \/ /\ row # NoRow
              /\ tasks' = [tasks EXCEPT ![reqs[r].task_id] =
                              [row EXCEPT !.title = u.title,
                                          !.description = u.description,
                                          !.completed = u.completed,
                                          !.priority = u.priority,
                                          !.ver = commits + 1]]
              /\ commits' = commits + 1
              /\ reqs' = [reqs EXCEPT ![r].pc = "reread", ![r].commit = commits + 1,
                                      ![r].feed = FeedOf(reqs[r].user)]
           \/ /\ row = NoRow       \* result.changes === 0
              /\ reqs' = [reqs EXCEPT ![r].pc = "done", ![r].callbacks = @ + 1, ![r].resp = INTERNAL]
              /\ UNCHANGED <<tasks, commits>>
    /\ UNCHANGED <<calls, uuid, published, unaryUnchanged>>
    /\ UNCHANGED budget

\* the second SELECT and the rest of the handler
updateTaskFinish(r) ==
    /\ reqs[r].op = "update" /\ reqs[r].pc = "reread"
    /\ LET updatedRow == dbGet(tasks, reqs[r].task_id, reqs[r].user)
       IN  IF updatedRow = NoRow     \* updatedRow.completed throws a TypeError
           THEN /\ reqs' = [reqs EXCEPT ![r].pc = "done", ![r].callbacks = @ + 1, ![r].resp = CatchCode("")]
                /\ UNCHANGED <<calls, published>>
           ELSE finish(r, "TASK_UPDATED", updatedRow, updatedRow.ver)
    /\ UNCHANGED <<tasks, commits, uuid, unaryUnchanged>>
    /\ UNCHANGED budget

deleteTask(token, task_id) ==
    /\ budget > 0 /\ budget' = budget - 1
    /\ LET user == validateToken(token)
           existingTask == dbGet(tasks, task_id, user.id)
       IN  IF ~user.ok
           THEN reqs' = Append(reqs, Failed("delete", token, user.code))
           ELSE IF existingTask = NoRow
           THEN reqs' = Append(reqs, [Failed("delete", token, NOT_FOUND) EXCEPT
                                        !.user = user.id, !.task_id = task_id])
           ELSE reqs' = Append(reqs, [NewReq("delete", token) EXCEPT
                            !.pc = "run", !.user = user.id, !.task_id = task_id,
                            !.task = existingTask])
    /\ UNCHANGED <<tasks, commits, calls, uuid, published, unaryUnchanged>>

\* the database executes the DELETE ... WHERE id = ? AND userId = ?
deleteTaskRun(r) ==
    /\ reqs[r].op = "delete" /\ reqs[r].pc = "run"
    /\ LET row == dbGet(tasks, reqs[r].task_id, reqs[r].user)
       IN  \/ /\ row # NoRow
              /\ tasks' = [x \in (DOMAIN tasks) \ {reqs[r].task_id} |-> tasks[x]]
              /\ commits' = commits + 1
              /\ reqs' = [reqs EXCEPT ![r].pc = "notify", ![r].commit = commits + 1,
                                      ![r].feed = FeedOf(reqs[r].user)]
           \/ /\ row = NoRow       \* result.changes === 0
              /\ reqs' = [reqs EXCEPT ![r].pc = "done", ![r].callbacks = @ + 1, ![r].resp = INTERNAL]
              /\ UNCHANGED <<tasks, commits>>
    /\ UNCHANGED <<calls, uuid, published, unaryUnchanged>>
    /\ UNCHANGED budget

deleteTaskFinish(r) ==
    /\ reqs[r].op = "delete" /\ reqs[r].pc = "notify"
    /\ finish(r, "TASK_DELETED", reqs[r].task, reqs[r].commit)
    /\ UNCHANGED <<tasks, commits, uuid, unaryUnchanged>>
    /\ UNCHANGED budget

\* the database rejects the statement a TaskService handler awaits: its
\* catch answers with error.code || INTERNAL
databaseRejects(r, code) ==
    /\ reqs[r].pc \in {"run", "reread", "total", "completed", "pending"}
    /\ reqs[r].op # "validateToken"
    /\ reqs' = [reqs EXCEPT ![r].pc = "done", ![r].callbacks = @ + 1, ![r].resp = CatchCode(code),
                            ![r].fault = TRUE]
    /\ UNCHANGED <<tasks, commits, calls, uuid, published, unaryUnchanged>>
    /\ UNCHANGED budget

\* database.getAllWithPagination of SELECT * FROM tasks WHERE userId = ?
\* [AND completed = ?] [AND priority = ?], page 1 of 10: the ids of the rows
dbGetAllWithPagination(table, userId, completed, priority) ==
    {k \in dbGetAll(table, userId) :
        /\ completed.t = "value" => table[k].completed = Val(completed)
        /\ priority.t = "value" => table[k].priority = convertFromPriority(priority)}

\* getTasks up to its await on the database; the request carries no page and
\* no limit (page || 1, limit || 10)
getTasks(token, completed, priority) ==
    /\ budget > 0 /\ budget' = budget - 1
    /\ LET user == validateToken(token)
           request == [NoRequest EXCEPT !.completed = completed, !.priority = priority]
       IN  IF ~user.ok
           THEN reqs' = Append(reqs, [Failed("list", token, user.code) EXCEPT
                                        !.request = request])
           ELSE reqs' = Append(reqs, [NewReq("list", token) EXCEPT
                            !.pc = "run", !.user = user.id, !.request = request])
    /\ UNCHANGED <<tasks, commits, calls, uuid, published, unaryUnchanged>>

\* the SELECT answers with the rows of the caller that pass the filters
getTasksGet(r) ==
    /\ reqs[r].op = "list" /\ reqs[r].pc = "run"
    /\ reqs' = [reqs EXCEPT ![r].pc = "done", ![r].callbacks = @ + 1, ![r].seen = commits,
                   ![r].rows = dbGetAllWithPagination(tasks, reqs[r].user,
                        reqs[r].request.completed, reqs[r].request.priority)]
    /\ UNCHANGED <<tasks, commits, calls, uuid, published, unaryUnchanged>>
    /\ UNCHANGED budget

\* getTask up to its await on the database
getTask(token, task_id) ==
    /\ budget > 0 /\ budget' = budget - 1
    /\ LET user == validateToken(token)
       IN  IF ~user.ok
           THEN reqs' = Append(reqs, Failed("get", token, user.code))
           ELSE reqs' = Append(reqs, [NewReq("get", token) EXCEPT
                            !.pc = "run", !.user = user.id, !.task_id = task_id])
    /\ UNCHANGED <<tasks, commits, calls, uuid, published, unaryUnchanged>>

\* the SELECT answers: NOT_FOUND without a row, else the row as a Task in
\* its wire form; seen keeps the commits the SELECT ran after and at the
\* commit that last wrote the row of the id asked for
getTaskGet(r) ==
    /\ reqs[r].op = "get" /\ reqs[r].pc = "run"
    /\ LET row == dbGet(tasks, reqs[r].task_id, reqs[r].user)
           ver == IF reqs[r].task_id \in DOMAIN tasks
                  THEN tasks[reqs[r].task_id].ver ELSE 0
       IN  IF row = NoRow
           THEN reqs' = [reqs EXCEPT ![r].pc = "done", ![r].callbacks = @ + 1, ![r].resp = NOT_FOUND,
                                     ![r].seen = commits, ![r].at = ver]
           ELSE reqs' = [reqs EXCEPT ![r].pc = "done", ![r].callbacks = @ + 1, ![r].task = row,
                                     ![r].seen = commits, ![r].at = ver,
                                     ![r].out = toProtobuf(row)]
    /\ UNCHANGED <<tasks, commits, calls, uuid, published, unaryUnchanged>>
    /\ UNCHANGED budget

\* getTaskStats up to its first await on the database
getTaskStats(token) ==
    /\ budget > 0 /\ budget' = budget - 1
    /\ LET user == validateToken(token)
       IN  IF ~user.ok
           THEN reqs' = Append(reqs, Failed("stats", token, user.code))
           ELSE reqs' = Append(reqs, [NewReq("stats", token) EXCEPT
                                        !.pc = "total", !.user = user.id])
    /\ UNCHANGED <<tasks, commits, calls, uuid, published, unaryUnchanged>>

\* the first COUNT answers; at keeps the commit it ran after
getTaskStatsTotal(r) ==
    /\ reqs[r].op = "stats" /\ reqs[r].pc = "total"
    /\ reqs' = [reqs EXCEPT ![r].pc = "completed", ![r].at = commits,
                    ![r].stats.total = dbCount(tasks, reqs[r].user, BOOLEAN)]
    /\ UNCHANGED <<tasks, commits, calls, uuid, published, unaryUnchanged>>
    /\ UNCHANGED budget

\* the second COUNT answers
getTaskStatsCompleted(r) ==
    /\ reqs[r].op = "stats" /\ reqs[r].pc = "completed"
    /\ reqs' = [reqs EXCEPT ![r].pc = "pending",
                    ![r].stats.completed = dbCount(tasks, reqs[r].user, {TRUE})]
    /\ UNCHANGED <<tasks, commits, calls, uuid, published, unaryUnchanged>>
    /\ UNCHANGED budget

\* the third COUNT answers and the handler calls back with the stats
getTaskStatsPending(r) ==
    /\ reqs[r].op = "stats" /\ reqs[r].pc = "pending"
    /\ LET total == reqs[r].stats.total
           completed == reqs[r].stats.completed
       IN  reqs' = [reqs EXCEPT ![r].pc = "done", ![r].callbacks = @ + 1,
                        ![r].stats.pending = dbCount(tasks, reqs[r].user, {FALSE}),
                        ![r].stats.completion_rate =
                            IF total > 0 THEN toFixed4(completed, total) ELSE 0]
    /\ UNCHANGED <<tasks, commits, calls, uuid, published, unaryUnchanged>>
    /\ UNCHANGED budget

(***************************************************************************)
(* AuthService.validateToken: the unary ValidateToken handler.             *)
(***************************************************************************)
\* up to the await of the users lookup; an empty token is answered at once
\* and jwt.verify throws into the catch
AuthValidateToken(token) ==
    /\ budget > 0 /\ budget' = budget - 1
    /\ reqs' = Append(reqs,
            IF token = "" \/ ~jwtVerify(token).ok
            THEN Failed("validateToken", token, UNAUTHENTICATED)
            ELSE [NewReq("validateToken", token) EXCEPT
                        !.pc = "run", !.user = jwtVerify(token).id])
    /\ UNCHANGED <<tasks, commits, calls, uuid, published, unaryUnchanged>>

\* the lookup answers with the user's row or with none
AuthValidateTokenGet(r, userData) ==
    /\ reqs[r].op = "validateToken" /\ reqs[r].pc = "run"
    /\ reqs' = [reqs EXCEPT ![r].pc = "done", ![r].callbacks = @ + 1,
                            ![r].resp = IF userData THEN OK ELSE NOT_FOUND]
    /\ UNCHANGED <<tasks, commits, calls, uuid, published, unaryUnchanged>>
    /\ UNCHANGED budget

\* the lookup rejects: the catch answers UNAUTHENTICATED whatever was thrown
AuthDatabaseRejects(r, code) ==
    /\ reqs[r].op = "validateToken" /\ reqs[r].pc = "run"
    /\ reqs' = [reqs EXCEPT ![r].pc = "done", ![r].callbacks = @ + 1, ![r].resp = UNAUTHENTICATED,
                            ![r].fault = TRUE]
    /\ UNCHANGED <<tasks, commits, calls, uuid, published, unaryUnchanged>>
    /\ UNCHANGED budget

\* SELECT * FROM users WHERE email = ? OR username = ? : the rows matched
usersGet(table, email, username) ==
    {k \in DOMAIN table : table[k].email = email \/ table[k].username = username}

\* the outcomes of INSERT INTO users for a row whose email or username a
\* stored row has: the table's constraints are not part of the service, so
\* the statement may be rejected and it may store the row
usersInsertOutcomes(table, user) ==
    IF usersGet(table, user.email, user.username) = {}
    THEN {"stored"} ELSE {"stored", "rejected"}

registerUnchanged == <<tasks, commits, calls, published, streamingSessions,
                       taskStreams, chatClients, now, chatSent, listsDb, clientVars>>

\* register up to its await on the users lookup; first_name and last_name are
\* given; rows keeps the users the lookup would match on arrival
register(email, username, password) ==
    /\ budget > 0 /\ budget' = budget - 1
    /\ LET userData == [NoUser EXCEPT !.email = email, !.username = username,
                                      !.password = password]
       IN  IF email = "" \/ username = "" \/ password = ""
           THEN reqs' = Append(reqs, [Failed("register", "", INVALID_ARGUMENT) EXCEPT
                                        !.userData = userData])
           ELSE reqs' = Append(reqs, [NewReq("register", "") EXCEPT
                            !.pc = "run", !.userData = userData,
                            !.rows = usersGet(users, email, username)])
    /\ UNCHANGED <<users, uuid, registerUnchanged>>

\* the lookup answers: ALREADY_EXISTS with a row, else userData gets its
\* uuidv4 and hashPassword is awaited
registerGet(r) ==
    /\ reqs[r].op = "register" /\ reqs[r].pc = "run"
    /\ LET existingUser == usersGet(users, reqs[r].userData.email,
                                    reqs[r].userData.username)
       IN  IF existingUser # {}
           THEN /\ reqs' = [reqs EXCEPT ![r].pc = "done", ![r].callbacks = @ + 1, ![r].resp = ALREADY_EXISTS]
                /\ UNCHANGED uuid
           ELSE /\ reqs' = [reqs EXCEPT ![r].pc = "hash", ![r].userData.id = uuid + 1]
                /\ uuid' = uuid + 1
    /\ UNCHANGED <<users, budget, registerUnchanged>>

\* hashPassword resolves and the INSERT is handed to the database
registerHash(r) ==
    /\ reqs[r].op = "register" /\ reqs[r].pc = "hash"
    /\ reqs' = [reqs EXCEPT ![r].pc = "insert"]
    /\ UNCHANGED <<users, uuid, budget, registerUnchanged>>

\* the database executes the INSERT INTO users and the call answers with
\* success, or the database rejects it and the catch answers INTERNAL
\* whatever was thrown
registerInsert(r) ==
    /\ reqs[r].op = "register" /\ reqs[r].pc = "insert"
    /\ \E outcome \in usersInsertOutcomes(users, reqs[r].userData) :
          IF outcome = "stored"
          THEN /\ users' = MapSet(users, reqs[r].userData.id, reqs[r].userData)
               /\ reqs' = [reqs EXCEPT ![r].pc = "done", ![r].callbacks = @ + 1]
          ELSE /\ reqs' = [reqs EXCEPT ![r].pc = "done", ![r].callbacks = @ + 1, ![r].resp = INTERNAL]
               /\ UNCHANGED users
    /\ UNCHANGED <<uuid, budget, registerUnchanged>>

\* login up to its await on the users lookup; userData keeps the identifier,
\* which the lookup takes for an email and for a username, and the password
login(identifier, password) ==
    /\ budget > 0 /\ budget' = budget - 1
    /\ LET userData == [NoUser EXCEPT !.email = identifier, !.username = identifier,
                                      !.password = password]
       IN  IF identifier = "" \/ password = ""
           THEN reqs' = Append(reqs, [Failed("login", "", INVALID_ARGUMENT) EXCEPT
                                        !.userData = userData])
           ELSE reqs' = Append(reqs, [NewReq("login", "") EXCEPT
                                        !.pc = "run", !.userData = userData])
    /\ UNCHANGED <<users, uuid, registerUnchanged>>

\* the lookup answers: NOT_FOUND without a row, else comparePassword is
\* awaited on the row found
loginGet(r) ==
    /\ reqs[r].op = "login" /\ reqs[r].pc = "run"
    /\ LET found == usersGet(users, reqs[r].userData.email, reqs[r].userData.username)
       IN  IF found = {}
           THEN reqs' = [reqs EXCEPT ![r].pc = "done", ![r].callbacks = @ + 1,
                                     ![r].resp = NOT_FOUND]
           ELSE reqs' = [reqs EXCEPT ![r].pc = "compare",
                            ![r].userData.id = CHOOSE k \in found : \A j \in found : k <= j]
    /\ UNCHANGED <<users, uuid, budget, registerUnchanged>>

\* a login that answers PERMISSION_DENIED and goes on to answer success
loginCompareNoReturn(r) ==
    /\ reqs[r].op = "login" /\ reqs[r].pc = "compare"
    /\ LET isValidPassword ==
               reqs[r].userData.id \in DOMAIN users
               /\ users[reqs[r].userData.id].password = reqs[r].userData.password
       IN  reqs' = [reqs EXCEPT ![r].pc = "done",
                       ![r].callbacks = IF isValidPassword THEN @ + 1 ELSE @ + 2,
                       ![r].resp = IF isValidPassword THEN OK ELSE PERMISSION_DENIED]
    /\ UNCHANGED <<users, uuid, budget, registerUnchanged>>

\* comparePassword answers: PERMISSION_DENIED for a wrong password, else
\* the token and the user
loginCompare(r) ==
    /\ reqs[r].op = "login" /\ reqs[r].pc = "compare"
    /\ LET isValidPassword ==
               reqs[r].userData.id \in DOMAIN users
               /\ users[reqs[r].userData.id].password = reqs[r].userData.password
       IN  reqs' = [reqs EXCEPT ![r].pc = "done", ![r].callbacks = @ + 1,
                       ![r].resp = IF isValidPassword THEN OK ELSE PERMISSION_DENIED]
    /\ UNCHANGED <<users, uuid, budget, registerUnchanged>>

\* the database or bcrypt rejects what login awaits: the catch answers
\* INTERNAL whatever was thrown
loginRejects(r) ==
    /\ reqs[r].op = "login" /\ reqs[r].pc \in {"run", "compare"}
    /\ reqs' = [reqs EXCEPT ![r].pc = "done", ![r].callbacks = @ + 1,
                            ![r].resp = INTERNAL, ![r].fault = TRUE]
    /\ UNCHANGED <<users, uuid, budget, registerUnchanged>>

\* the database rejects the statement register awaits
registerRejects(r) ==
    /\ reqs[r].op = "register" /\ reqs[r].pc \in {"run", "insert"}
    /\ reqs' = [reqs EXCEPT ![r].pc = "done", ![r].callbacks = @ + 1, ![r].resp = INTERNAL, ![r].fault = TRUE]
    /\ UNCHANGED <<users, uuid, budget, registerUnchanged>>

(***************************************************************************)
(* Streaming handlers and their 'data', 'end' and 'error' listeners.       *)
(***************************************************************************)
streamUnchanged == <<tasks, users, listsDb, commits, reqs, now, published, chatSent,
                     clientVars>>

\* streamTasks(call): registers, then validates; a rejected validation runs
\* the .catch in the same turn of the event loop
streamTasks(token, failing) ==
    /\ budget > 0 /\ budget' = budget - 1
    /\ LET streamId == uuid + 1
           c == Len(calls) + 1
           call == NewCall("tasks", token, failing, streamId)
       IN  /\ uuid' = streamId
           /\ taskStreams' = MapSet(taskStreams, streamId, c)
           /\ calls' = Append(calls,
                 IF validateToken(token).ok THEN [call EXCEPT !.snap = "pending"]
                 ELSE callEnd(call))
    /\ UNCHANGED <<streamingSessions, chatClients, streamUnchanged>>

RECURSIVE writeRows(_, _, _)
writeRows(call, table, ids) ==
    IF ids = {} THEN call
    ELSE LET k == CHOOSE x \in ids : \A y \in ids : x <= y
         IN  writeRows(callWrite(call, toProtobuf(table[k]),
                                 [k |-> "snapshot", n |-> 0, ver |-> table[k].ver]),
                       table, ids \ {k})

\* the .then of streamTasks once database.getAll has answered: rows.forEach
\* stops at a write that throws, which rejects the chain, whose .catch ends
\* the call
streamTasksSnapshot(c) ==
    /\ calls[c].kind = "tasks" /\ calls[c].snap = "pending"
    /\ LET user == validateToken(calls[c].token)
           rows == dbGetAll(tasks, user.id)
           first == {k \in rows : \A y \in rows : k <= y}
           written == writeRows(calls[c], tasks,
                                IF calls[c].failing THEN first ELSE rows)
       IN  calls' = [calls EXCEPT ![c] =
                [(IF rows # {} /\ calls[c].failing THEN callEnd(written) ELSE written)
                   EXCEPT !.snap = "done"]]
    /\ UNCHANGED <<streamingSessions, taskStreams, chatClients, uuid, streamUnchanged>>
    /\ UNCHANGED budget

streamNotifications(token, failing) ==
    /\ budget > 0 /\ budget' = budget - 1
    /\ LET streamId == uuid + 1
       IN  /\ uuid' = streamId
           /\ streamingSessions' = MapSet(streamingSessions, streamId, Len(calls) + 1)
           /\ calls' = Append(calls, NewCall("notif", token, failing, streamId))
    /\ UNCHANGED <<taskStreams, chatClients, streamUnchanged>>

\* a chat that also puts its call among the notification sessions
chatInBoth(failing) ==
    /\ budget > 0 /\ budget' = budget - 1
    /\ LET clientId == uuid + 1
       IN  /\ uuid' = clientId
           /\ chatClients' = MapSet(chatClients, clientId, Len(calls) + 1)
           /\ streamingSessions' = MapSet(streamingSessions, clientId, Len(calls) + 1)
           /\ calls' = Append(calls, NewCall("chat", "", failing, clientId))
    /\ UNCHANGED <<taskStreams, streamUnchanged>>

\* chat(call): registers the call under a fresh clientId
chat(failing) ==
    /\ budget > 0 /\ budget' = budget - 1
    /\ LET clientId == uuid + 1
       IN  /\ uuid' = clientId
           /\ chatClients' = MapSet(chatClients, clientId, Len(calls) + 1)
           /\ calls' = Append(calls, NewCall("chat", "", failing, clientId))
    /\ UNCHANGED <<streamingSessions, taskStreams, streamUnchanged>>

ChatUserIds == {"X", "Y"}

\* the message relayed: the sender's fields under the server's timestamp
Relayed(message) ==
    [user_id |-> message.user_id, message |-> message.message, timestamp |-> now]

\* a relay loop without the  if (id === clientId) continue
RelayToAll(clientId) == DOMAIN chatClients

\* the chat sessions a message of clientId is written to
RelayTo(clientId) == {id \in DOMAIN chatClients : id # clientId}

\* call.on('data') of chat
chatData(c, message) ==
    /\ calls[c].kind = "chat" /\ calls[c].sigs = 0
    /\ budget > 0 /\ budget' = budget - 1
    /\ LET clientId == calls[c].id
           msg == Relayed(message)
           hit == {chatClients[id] : id \in RelayTo(clientId)}
           n == Len(chatSent) + 1
       IN  /\ calls' = [d \in DOMAIN calls |->
                  IF d \in hit
                  THEN callWrite(calls[d], msg, [k |-> "chat", n |-> n, ver |-> 0])
                  ELSE calls[d]]
           /\ chatSent' = Append(chatSent,
                  [from |-> c, message |-> message, at |-> now,
                   peers |-> Range(chatClients) \ {c}])
    /\ UNCHANGED <<tasks, users, listsDb, commits, streamingSessions, taskStreams, chatClients,
                   reqs, uuid, now, published, clientVars>>

\* a listener that empties the Map of the call's kind
removeSessionAll(c) ==
    /\ streamingSessions' = IF calls[c].kind = "notif" THEN EmptyMap
                            ELSE streamingSessions
    /\ taskStreams' = IF calls[c].kind = "tasks" THEN EmptyMap ELSE taskStreams
    /\ chatClients' = IF calls[c].kind = "chat" THEN EmptyMap ELSE chatClients

\* a listener that leaves the Maps as they are
removeSessionNone(c) == UNCHANGED <<streamingSessions, taskStreams, chatClients>>

\* this.<map>.delete(id) of the listener of the call's kind
removeSession(c) ==
    /\ streamingSessions' = IF calls[c].kind = "notif"
                            THEN MapDelete(streamingSessions, calls[c].id)
                            ELSE streamingSessions
    /\ taskStreams' = IF calls[c].kind = "tasks"
                      THEN MapDelete(taskStreams, calls[c].id) ELSE taskStreams
    /\ chatClients' = IF calls[c].kind = "chat"
                      THEN MapDelete(chatClients, calls[c].id) ELSE chatClients

\* call.on('end'): streamTasks and chat also end their side of the call
onEnd(c) ==
    /\ c \in DOMAIN calls /\ budget > 0
    /\ removeSession(c)
    /\ calls' = [calls EXCEPT ![c] =
          [(IF calls[c].kind \in {"tasks", "chat"} THEN callEnd(calls[c]) ELSE calls[c])
             EXCEPT !.sigs = @ + 1]]
    /\ budget' = budget - 1
    /\ UNCHANGED <<tasks, users, listsDb, commits, reqs, uuid, now, published, chatSent,
                   clientVars>>

\* call.on('error')
onError(c) ==
    /\ c \in DOMAIN calls /\ budget > 0
    /\ removeSession(c)
    /\ calls' = [calls EXCEPT ![c].sigs = @ + 1]
    /\ budget' = budget - 1
    /\ UNCHANGED <<tasks, users, listsDb, commits, reqs, uuid, now, published, chatSent,
                   clientVars>>

\* a second passes on the server clock
Tick ==
    /\ now < MaxClock
    /\ now' = now + 1
    /\ UNCHANGED <<tasks, commits, streamingSessions, taskStreams, chatClients, calls,
                   reqs, uuid, published, chatSent, budget, users, listsDb, clientVars>>

(***************************************************************************)
(* The server: both inputs and scheduling are free.                        *)
(***************************************************************************)
ServerInit(events) ==
    /\ tasks = EmptyMap /\ users = EmptyMap /\ listsDb = NoLists /\ commits = 0
    /\ streamingSessions = EmptyMap /\ taskStreams = EmptyMap /\ chatClients = EmptyMap
    /\ calls = <<>> /\ reqs = <<>> /\ uuid = 0 /\ now = 0
    /\ published = <<>> /\ chatSent = <<>> /\ budget = events

ServerIdle == UNCHANGED serverVars

(***************************************************************************)
(* GrpcClient: the stub pools and their rotation cursors.  A JavaScript    *)
(* number is an integer here, or NaN; a field never assigned is undefined. *)
(***************************************************************************)
NaN == -1
Unassigned == -2

Addresses == <<"localhost:50051", "localhost:50052", "localhost:50053", "localhost:50054",
               "localhost:50055">>

Stub(service, addr) == [service |-> service, addr |-> addr]
UndefinedStub == [service |-> "undefined", addr |-> ""]

\* array[index]: undefined outside the array and for NaN
At(array, index) ==
    IF index \in 0..(Len(array) - 1) THEN array[index + 1] ELSE UndefinedStub

\* (index + 1) % length on numbers: NaN stays NaN and x % 0 is NaN
Advance(index, length) ==
    IF index = NaN \/ length = 0 THEN NaN ELSE (index + 1) % length

\* new GrpcClient(servers)
GrpcClient(addrs) ==
    /\ servers = addrs
    /\ authClients = <<>> /\ taskClients = <<>>
    /\ currentAuthIndex = 0 /\ currentTaskIndex = 0
    /\ currentIndex = Unassigned /\ currentToken = "null"
    /\ initialized = FALSE /\ picks = <<>>

clientBusy == Len(picks) >= MaxClientCalls

initialize ==
    /\ ~initialized
    /\ authClients' = [i \in DOMAIN servers |-> Stub("auth", servers[i])]
    /\ taskClients' = [i \in DOMAIN servers |-> Stub("tasks", servers[i])]
    /\ currentIndex' = 0
    /\ initialized' = TRUE
    /\ UNCHANGED <<servers, currentAuthIndex, currentTaskIndex, currentToken, picks>>

Pick(service, client, method, outcome) ==
    [service |-> service, stub |-> client, method |-> method, init |-> initialized,
     outcome |-> IF client = UndefinedStub THEN "TypeError" ELSE outcome]

\* getNextAuthClient() inside register / login; login keeps the token
authCall(method, outcome) ==
    /\ ~clientBusy
    /\ LET client == At(authClients, currentAuthIndex)
           p == Pick("auth", client, method, outcome)
       IN  /\ currentAuthIndex' = Advance(currentAuthIndex, Len(authClients))
           /\ picks' = Append(picks, p)
           /\ currentToken' = IF method = "Login" /\ p.outcome = "ok"
                              THEN "jwt-u1" ELSE currentToken
    /\ UNCHANGED <<servers, authClients, taskClients, currentTaskIndex, currentIndex,
                   initialized>>

\* getNextTaskClient() inside createTask .. getStats, streamTasks,
\* streamNotifications and chat
taskCall(method, outcome) ==
    /\ ~clientBusy
    /\ LET client == At(taskClients, currentTaskIndex)
       IN  /\ currentTaskIndex' = Advance(currentTaskIndex, Len(taskClients))
           /\ picks' = Append(picks, Pick("tasks", client, method, outcome))
    /\ UNCHANGED <<servers, authClients, taskClients, currentAuthIndex, currentIndex,
                   currentToken, initialized>>

AuthMethods == {"Register", "Login"}
TaskMethods == {"CreateTask", "StreamNotifications"}
Outcomes == {"ok", "error"}

ClientNext ==
    \/ initialize /\ ServerIdle
    \/ \E method \in AuthMethods, outcome \in Outcomes :
            authCall(method, outcome) /\ ServerIdle
    \/ \E method \in TaskMethods, outcome \in Outcomes :
            taskCall(method, outcome) /\ ServerIdle

ClientInit ==
    /\ ServerInit(0)
    /\ \E n \in 1..MaxServers : GrpcClient(SubSeq(Addresses, 1, n))

ClientSpec == ClientInit /\ [][ClientNext]_vars

(***************************************************************************)
(* Calls in flight.  An async client method runs synchronously up to its   *)
(* await: it takes the next stub, wraps it and invokes it; the rest of the *)
(* method runs when the stub's callback fires.                             *)
(***************************************************************************)
\* promisify(client, method)(request) with every replica contacted
promisifyFanOut(client, method) ==
    [stub |-> client, method |-> method, contacted |-> Range(servers),
     outcome |-> IF client = UndefinedStub THEN "TypeError" ELSE "pending",
     from |-> ""]

\* promisify(client, method)(request): client[method](request, callback) is
\* invoked on the one stub given; on undefined it throws inside the promise
\* executor and the promise is rejected at once
promisify(client, method) ==
    [stub |-> client, method |-> method,
     contacted |-> IF client = UndefinedStub THEN {} ELSE {client.addr},
     outcome |-> IF client = UndefinedStub THEN "TypeError" ELSE "pending",
     from |-> ""]

\* createTask .. getStats up to the await; the cursor before and after is
\* kept with the call
beginTaskCall(method) ==
    /\ ~clientBusy
    /\ LET client == At(taskClients, currentTaskIndex)
           next == Advance(currentTaskIndex, Len(taskClients))
       IN  /\ currentTaskIndex' = next
           /\ picks' = Append(picks, promisify(client, method) @@
                                     [service |-> "tasks", init |-> initialized,
                                      index |-> currentTaskIndex, next |-> next])
    /\ UNCHANGED <<servers, authClients, taskClients, currentAuthIndex, currentIndex,
                   currentToken, initialized>>

\* the callback of call i fires: with the error of the replica contacted when
\* that replica is down (reject), with its response otherwise (resolve)
callback(i, down) ==
    /\ picks[i].outcome = "pending"
    /\ picks' = [picks EXCEPT ![i].outcome =
                                    IF picks[i].stub.addr \in down THEN "error" ELSE "ok",
                              ![i].from =
                                    IF picks[i].stub.addr \in down
                                    THEN picks[i].stub.addr ELSE ""]
    /\ UNCHANGED <<servers, authClients, taskClients, currentAuthIndex, currentTaskIndex,
                   currentIndex, currentToken, initialized>>

UnaryTaskMethods == {"CreateTask", "GetTaskStats"}

DispatchNext ==
    \/ initialize /\ ServerIdle
    \/ \E method \in UnaryTaskMethods : beginTaskCall(method) /\ ServerIdle
    \/ \E i \in DOMAIN picks, down \in SUBSET Range(servers) :
            callback(i, down) /\ ServerIdle

DispatchSpec == ClientInit /\ [][DispatchNext]_vars

(***************************************************************************)
(* The server: inputs and scheduling are free.                             *)
(***************************************************************************)
Init == ServerInit(MaxEvents) /\ GrpcClient(SubSeq(Addresses, 1, 3))

\* the mutations of the broadcast scenarios: two users and an invalid token
ReqTokens == {"jwt-u1", "jwt-u2", "garbage"}
StreamTokens == {"jwt-u1", "garbage"}

Mutations ==
    \/ \E token \in ReqTokens :
            createTask(token, Some(<<" ", "a">>), Undefined, Some(2))
    \/ \E r \in DOMAIN reqs : createTaskInsert(r)
    \/ \E r \in DOMAIN reqs : createTaskFinish(r)
    \/ \E token \in ReqTokens, task_id \in DOMAIN tasks :
            updateTask(token, task_id, Undefined, Undefined, Some(TRUE), Undefined)
    \/ \E r \in DOMAIN reqs : updateTaskRun(r)
    \/ \E r \in DOMAIN reqs : updateTaskFinish(r)
    \/ \E token \in ReqTokens, task_id \in DOMAIN tasks : deleteTask(token, task_id)
    \/ \E r \in DOMAIN reqs : deleteTaskRun(r)
    \/ \E r \in DOMAIN reqs : deleteTaskFinish(r)

Next ==
    \/ Mutations
    \/ \E token \in StreamTokens, failing \in BOOLEAN : streamTasks(token, failing)
    \/ \E c \in DOMAIN calls : streamTasksSnapshot(c)
    \/ \E token \in StreamTokens, failing \in BOOLEAN :
            streamNotifications(token, failing)
    \/ \E c \in DOMAIN calls : onEnd(c)
    \/ \E c \in DOMAIN calls : onError(c)

Spec == Init /\ [][Next]_vars

\* the session scenarios: the three kinds of stream, their signals and chat
SessionNext ==
    \/ \E token \in StreamTokens, failing \in BOOLEAN : streamTasks(token, failing)
    \/ \E c \in DOMAIN calls : streamTasksSnapshot(c)
    \/ \E token \in StreamTokens, failing \in BOOLEAN :
            streamNotifications(token, failing)
    \/ \E failing \in BOOLEAN : chat(failing)
    \/ \E c \in DOMAIN calls, user_id \in ChatUserIds, timestamp \in 0..MaxClock :
            chatData(c, [user_id |-> user_id, message |-> "hi", timestamp |-> timestamp])
    \/ \E c \in DOMAIN calls : onEnd(c)
    \/ \E c \in DOMAIN calls : onError(c)
    \/ Tick

SessionInit == ServerInit(MaxSessionEvents) /\ GrpcClient(SubSeq(Addresses, 1, 3))

SessionSpec == SessionInit /\ [][SessionNext]_vars

\* the chat scenarios: chat sessions that open, send and leave
ChatNext ==
    \/ \E failing \in BOOLEAN : chat(failing)
    \/ \E c \in DOMAIN calls :
            chatData(c, [user_id |-> "X", message |-> "hi", timestamp |-> 0])
    \/ \E c \in DOMAIN calls : onEnd(c)
    \/ \E c \in DOMAIN calls : onError(c)

ChatInit == ServerInit(MaxChatEvents) /\ GrpcClient(SubSeq(Addresses, 1, 3))

ChatSpec == ChatInit /\ [][ChatNext]_vars

\* the partition scenarios start with a notification session, a task-feed
\* session whose snapshot of the empty table is done and two chat sessions,
\* opened in this order by u1; then chat messages, mutations of u1 and
\* 'end' signals
PartitionNext ==
    \/ \E c \in DOMAIN calls :
            chatData(c, [user_id |-> "X", message |-> "hi", timestamp |-> 0])
    \/ createTask("jwt-u1", Some(<<"a">>), Undefined, Some(2))
    \/ \E r \in DOMAIN reqs : createTaskInsert(r)
    \/ \E r \in DOMAIN reqs : createTaskFinish(r)
    \/ \E task_id \in DOMAIN tasks : deleteTask("jwt-u1", task_id)
    \/ \E r \in DOMAIN reqs : deleteTaskRun(r)
    \/ \E r \in DOMAIN reqs : deleteTaskFinish(r)
    \/ \E c \in DOMAIN calls : onEnd(c)

PartitionInit ==
    /\ tasks = EmptyMap /\ users = EmptyMap /\ listsDb = NoLists /\ commits = 0
    /\ streamingSessions = MapSet(EmptyMap, 1, 1)
    /\ taskStreams = MapSet(EmptyMap, 2, 2)
    /\ chatClients = MapSet(MapSet(EmptyMap, 3, 3), 4, 4)
    /\ calls = <<NewCall("notif", "jwt-u1", FALSE, 1),
                 [NewCall("tasks", "jwt-u1", FALSE, 2) EXCEPT !.snap = "done"],
                 NewCall("chat", "", FALSE, 3), NewCall("chat", "", FALSE, 4)>>
    /\ reqs = <<>> /\ uuid = 4 /\ now = 0
    /\ published = <<>> /\ chatSent = <<>> /\ budget = MaxPartitionEvents
    /\ GrpcClient(SubSeq(Addresses, 1, 3))

PartitionSpec == PartitionInit /\ [][PartitionNext]_vars

\* the store fault scenarios: the unary handlers with a database that may
\* reject what they await
FaultNext ==
    \/ Mutations
    \/ \E r \in DOMAIN reqs, code \in DbErrorCodes : databaseRejects(r, code)
    \/ \E token \in ReqTokens \cup {""} : AuthValidateToken(token)
    \/ \E r \in DOMAIN reqs, userData \in BOOLEAN : AuthValidateTokenGet(r, userData)
    \/ \E r \in DOMAIN reqs, code \in DbErrorCodes : AuthDatabaseRejects(r, code)

FaultSpec == Init /\ [][FaultNext]_vars

\* the priority codes a request may carry: absent, null, in range and out
PriorityInputs == {Undefined, Null} \cup {Some(n) : n \in (-1..MaxCode) \cup {99}}

\* the priority scenarios: creates of one user with every priority code
PriorityNext ==
    \/ \E priority \in PriorityInputs :
            createTask("jwt-u1", Some(<<"a">>), Undefined, priority)
    \/ \E r \in DOMAIN reqs : createTaskInsert(r)
    \/ \E r \in DOMAIN reqs : createTaskFinish(r)

\* the same with updates of the stored tasks, with every priority code
PriorityUpdateNext ==
    \/ PriorityNext
    \/ \E task_id \in DOMAIN tasks, priority \in PriorityInputs :
            updateTask("jwt-u1", task_id, Undefined, Undefined, Undefined, priority)
    \/ \E r \in DOMAIN reqs : updateTaskRun(r)
    \/ \E r \in DOMAIN reqs : updateTaskFinish(r)

PriorityInit == ServerInit(MaxPriorityCalls) /\ GrpcClient(SubSeq(Addresses, 1, 3))

PrioritySpec == PriorityInit /\ [][PriorityNext]_vars

PriorityUpdateSpec == PriorityInit /\ [][PriorityUpdateNext]_vars

\* a row the tasks table holds from an earlier run of the server
StoredRow(id, userId, completed) ==
    [id |-> id, userId |-> userId, title |-> <<"a">>, description |-> <<>>,
     completed |-> completed, priority |-> "medium", ver |-> 0]

\* the statistics scenarios start with n <= MaxRows rows of u1, the first c
\* of them completed, and with or without a row of u2 after them
StatsInit ==
    /\ \E n \in 0..MaxRows, c \in 0..MaxRows, other \in BOOLEAN :
            /\ c <= n
            /\ uuid = IF other THEN n + 1 ELSE n
            /\ tasks = [id \in 1..uuid |->
                            IF id <= n THEN StoredRow(id, "u1", id <= c)
                            ELSE StoredRow(id, "u2", FALSE)]
    /\ commits = 0 /\ users = EmptyMap /\ listsDb = NoLists
    /\ streamingSessions = EmptyMap /\ taskStreams = EmptyMap /\ chatClients = EmptyMap
    /\ calls = <<>> /\ reqs = <<>> /\ now = 0
    /\ published = <<>> /\ chatSent = <<>> /\ budget = MaxStatsEvents
    /\ GrpcClient(SubSeq(Addresses, 1, 3))

StatsNext ==
    \/ getTaskStats("jwt-u1")
    \/ \E r \in DOMAIN reqs : getTaskStatsTotal(r)
    \/ \E r \in DOMAIN reqs : getTaskStatsCompleted(r)
    \/ \E r \in DOMAIN reqs : getTaskStatsPending(r)
    \/ \E task_id \in DOMAIN tasks :
            updateTask("jwt-u1", task_id, Undefined, Undefined, Some(TRUE), Undefined)
    \/ \E r \in DOMAIN reqs : updateTaskRun(r)
    \/ \E r \in DOMAIN reqs : updateTaskFinish(r)

StatsSpec == StatsInit /\ [][StatsNext]_vars

\* the requests of the round-trip scenarios: a title to trim with a priority
\* code, a description with the code of low, and an out-of-range code
CreateRequests ==
    {[title |-> Some(<<" ", "a", " ">>), description |-> Undefined, priority |-> Some(3)],
     [title |-> Some(<<"b">>), description |-> Some(<<"d">>), priority |-> Some(0)],
     [title |-> Some(<<"b">>), description |-> Null, priority |-> Some(99)]}

\* the round-trip scenarios: creates, reads by id and an update, of one user
RoundTripNext ==
    \/ \E request \in CreateRequests :
            createTask("jwt-u1", request.title, request.description, request.priority)
    \/ \E r \in DOMAIN reqs : createTaskInsert(r)
    \/ \E r \in DOMAIN reqs : createTaskFinish(r)
    \/ \E task_id \in 1..uuid : getTask("jwt-u1", task_id)
    \/ \E r \in DOMAIN reqs : getTaskGet(r)
    \/ \E task_id \in DOMAIN tasks :
            updateTask("jwt-u1", task_id, Undefined, Undefined, Some(TRUE), Undefined)
    \/ \E r \in DOMAIN reqs : updateTaskRun(r)
    \/ \E r \in DOMAIN reqs : updateTaskFinish(r)

RoundTripInit == ServerInit(MaxRoundTripEvents) /\ GrpcClient(SubSeq(Addresses, 1, 3))

RoundTripSpec == RoundTripInit /\ [][RoundTripNext]_vars

\* the credential scenarios: creates with the token in the request body,
\* in the metadata, in both and in neither
CredentialNext ==
    \/ \E authorization \in {Undefined, Some(<<"Bearer ", "jwt-u1">>),
                              Some(<<"Bearer ", "garbage">>)},
          token \in {"", "jwt-u1", "garbage"} :
            CreateTask(authorization, token, Some(<<"a">>), Undefined, Some(2))
    \/ \E r \in DOMAIN reqs : createTaskInsert(r)
    \/ \E r \in DOMAIN reqs : createTaskFinish(r)

CredentialInit == ServerInit(MaxCredentialCalls) /\ GrpcClient(SubSeq(Addresses, 1, 3))

CredentialSpec == CredentialInit /\ [][CredentialNext]_vars

\* the requests of the registration scenarios: a missing email, and emails
\* and usernames that clash with one another
RegisterRequests ==
    {[email |-> "", username |-> "a"], [email |-> "a@x", username |-> "a"],
     [email |-> "a@x", username |-> "b"], [email |-> "b@x", username |-> "a"]}

RegisterNext ==
    \/ \E request \in RegisterRequests :
            register(request.email, request.username, "pw")
    \/ \E r \in DOMAIN reqs : registerGet(r)
    \/ \E r \in DOMAIN reqs : registerHash(r)
    \/ \E r \in DOMAIN reqs : registerInsert(r)
    \/ \E r \in DOMAIN reqs : registerRejects(r)

RegisterInit == ServerInit(MaxRegisterCalls) /\ GrpcClient(SubSeq(Addresses, 1, 3))

RegisterSpec == RegisterInit /\ [][RegisterNext]_vars

\* the unary handler scenarios: the six task handlers called by two users
\* and with a missing and an invalid token, with a title and without, over
\* a database that may reject what they await
HandlerTokens == {"jwt-u1", "jwt-u2", "garbage", ""}

\* the calls of the six task handlers with a token of tokens
HandlerCalls(tokens) ==
    \/ \E token \in tokens, title \in {Some(<<"a">>), Some(<<" ">>)} :
            createTask(token, title, Undefined, Some(2))
    \/ \E token \in tokens, completed \in {Undefined, Some(TRUE)} :
            getTasks(token, completed, Undefined)
    \/ \E token \in tokens, task_id \in 1..uuid : getTask(token, task_id)
    \/ \E token \in tokens, task_id \in 1..uuid :
            updateTask(token, task_id, Undefined, Undefined, Some(TRUE), Undefined)
    \/ \E token \in tokens, task_id \in 1..uuid : deleteTask(token, task_id)
    \/ \E token \in tokens : getTaskStats(token)

\* the steps of the task handlers after their awaits
HandlerSteps ==
    \/ \E r \in DOMAIN reqs : createTaskInsert(r)
    \/ \E r \in DOMAIN reqs : createTaskFinish(r)
    \/ \E r \in DOMAIN reqs : getTasksGet(r)
    \/ \E r \in DOMAIN reqs : getTaskGet(r)
    \/ \E r \in DOMAIN reqs : updateTaskRun(r)
    \/ \E r \in DOMAIN reqs : updateTaskFinish(r)
    \/ \E r \in DOMAIN reqs : deleteTaskRun(r)
    \/ \E r \in DOMAIN reqs : deleteTaskFinish(r)
    \/ \E r \in DOMAIN reqs : getTaskStatsTotal(r)
    \/ \E r \in DOMAIN reqs : getTaskStatsCompleted(r)
    \/ \E r \in DOMAIN reqs : getTaskStatsPending(r)
    \/ \E r \in DOMAIN reqs, code \in DbErrorCodes : databaseRejects(r, code)

HandlerNext == HandlerCalls(HandlerTokens) \/ HandlerSteps

\* the step of the handler of call r once what it awaits has answered
UnaryStep(r) ==
    \/ createTaskInsert(r) \/ createTaskFinish(r)
    \/ getTasksGet(r) \/ getTaskGet(r)
    \/ updateTaskRun(r) \/ updateTaskFinish(r)
    \/ deleteTaskRun(r) \/ deleteTaskFinish(r)
    \/ getTaskStatsTotal(r) \/ getTaskStatsCompleted(r) \/ getTaskStatsPending(r)
    \/ registerGet(r) \/ registerHash(r) \/ registerInsert(r)
    \/ loginGet(r) \/ loginCompare(r)
    \/ \E userData \in BOOLEAN : AuthValidateTokenGet(r, userData)

\* the requests of the login scenarios: a missing identifier, and the email
\* of a user that may be registered with its password and with another
LoginRequests ==
    {[identifier |-> "", password |-> "pw"], [identifier |-> "a@x", password |-> "pw"],
     [identifier |-> "a@x", password |-> "no"]}

\* every unary handler of TaskService and AuthService, over a database that
\* may reject what they await
UnaryNext ==
    \/ HandlerCalls({"jwt-u1", "garbage"})
    \/ HandlerSteps
    \/ \E request \in RegisterRequests :
            register(request.email, request.username, "pw")
    \/ \E r \in DOMAIN reqs : registerGet(r)
    \/ \E r \in DOMAIN reqs : registerHash(r)
    \/ \E r \in DOMAIN reqs : registerInsert(r)
    \/ \E r \in DOMAIN reqs : registerRejects(r)
    \/ \E request \in LoginRequests : login(request.identifier, request.password)
    \/ \E r \in DOMAIN reqs : loginGet(r)
    \/ \E r \in DOMAIN reqs : loginCompare(r)
    \/ \E r \in DOMAIN reqs : loginRejects(r)
    \/ \E token \in {"jwt-u1", ""} : AuthValidateToken(token)
    \/ \E r \in DOMAIN reqs, userData \in BOOLEAN : AuthValidateTokenGet(r, userData)
    \/ \E r \in DOMAIN reqs, code \in DbErrorCodes : AuthDatabaseRejects(r, code)

HandlerInit == ServerInit(MaxHandlerCalls) /\ GrpcClient(SubSeq(Addresses, 1, 3))

HandlerSpec == HandlerInit /\ [][HandlerNext]_vars

UnarySpec == HandlerInit /\ [][UnaryNext]_vars

(***************************************************************************)
(* Properties.                                                             *)
(***************************************************************************)
\* the entries of call c's log written for published event k
EventEntries(c, k) ==
    {i \in DOMAIN calls[c].log :
        calls[c].log[i].src.k = "event" /\ calls[c].log[i].src.n = k}

\* the event as a notification session is to see it
Expected(k) ==
    [type |-> published[k].type, task |-> toProtobuf(published[k].task),
     timestamp |-> published[k].timestamp]

ReceivedOnce(c, k) ==
    /\ Cardinality(EventEntries(c, k)) = 1
    /\ \A i \in EventEntries(c, k) :
          calls[c].log[i].st = "ok" /\ calls[c].log[i].m = Expected(k)

\* C1: broadcast isolation.  For every event notifyStreams published while a
\* session whose write throws was registered in streamingSessions, every
\* other session registered in streamingSessions at that publish has
\* received exactly that event.
C1_BroadcastIsolation ==
    \A k \in DOMAIN published :
        (\E f \in published[k].notif : calls[f].failing) =>
            \A c \in published[k].notif : ~calls[c].failing => ReceivedOnce(c, k)

\* a publish where the failing session comes first in the Map and a healthy
\* one after it
C1_Witness ==
    \E k \in DOMAIN published : \E f, c \in published[k].notif :
        /\ calls[f].failing /\ ~calls[c].failing /\ calls[f].id < calls[c].id
        /\ ReceivedOnce(c, k)

\* C2: a mutating handler all of whose store operations succeeded, so that it
\* reached notifyStreams, answers its caller with success whatever the
\* outcome of the writes to the notification and task-feed sessions.
C2_MutationSucceedsDespiteWriteFailures ==
    \A r \in DOMAIN reqs :
        reqs[r].ev # 0 => reqs[r].pc = "done" /\ reqs[r].resp = OK

\* a successful mutation published to a failing notification session and a
\* failing task-feed session, and to no healthy one
C2_Witness ==
    \E r \in DOMAIN reqs :
        /\ reqs[r].ev # 0 /\ reqs[r].resp = OK
        /\ published[reqs[r].ev].notif # {} /\ published[reqs[r].ev].feed # {}
        /\ \A c \in published[reqs[r].ev].notif \cup published[reqs[r].ev].feed :
              calls[c].failing /\ calls[c].log # <<>>

\* the messages of call c that carry the task state commit n produced
Reflecting(c, n) ==
    {i \in DOMAIN calls[c].log :
        calls[c].log[i].src.ver = n /\ calls[c].log[i].st = "ok"}

\* C3: every successful mutation of user U has, in every task-feed session of
\* U registered when it committed (and open and writable since), exactly one
\* message reflecting the state it committed, and the broadcast messages of a
\* session are in commit order.
C3_ExactlyOnceInCommitOrder ==
    /\ \A r \in DOMAIN reqs :
          (reqs[r].pc = "done" /\ reqs[r].resp = OK /\ reqs[r].commit # 0) =>
              \A c \in reqs[r].feed :
                  (~calls[c].failing /\ ~calls[c].ended /\ calls[c].sigs = 0) =>
                      Cardinality(Reflecting(c, reqs[r].commit)) = 1
    /\ \A c \in DOMAIN calls : \A i, j \in DOMAIN calls[c].log :
          (/\ calls[c].kind = "tasks" /\ i < j
           /\ calls[c].log[i].src.k = "event" /\ calls[c].log[j].src.k = "event") =>
              calls[c].log[i].src.ver < calls[c].log[j].src.ver

TypeOf(op) ==
    CASE op = "create" -> "TASK_CREATED"
      [] op = "update" -> "TASK_UPDATED"
      [] op = "delete" -> "TASK_DELETED"

\* C4: every successful create, update and delete published one event of the
\* matching type, and every session registered in streamingSessions at that
\* moment was written that event {type, task, timestamp} exactly once, which
\* it received unless its own write threw; no other notification session was
\* written it.
C4_NotificationPerMutation ==
    /\ \A r \in DOMAIN reqs :
          (reqs[r].pc = "done" /\ reqs[r].resp = OK) =>
              /\ reqs[r].ev \in DOMAIN published
              /\ published[reqs[r].ev].req = r
              /\ published[reqs[r].ev].type = TypeOf(reqs[r].op)
    /\ \A k \in DOMAIN published : \A c \in DOMAIN calls :
          calls[c].kind = "notif" =>
              /\ Cardinality(EventEntries(c, k)) =
                    IF c \in published[k].notif THEN 1 ELSE 0
              /\ \A i \in EventEntries(c, k) :
                    /\ calls[c].log[i].m = Expected(k)
                    /\ calls[c].log[i].m.type = TypeOf(reqs[published[k].req].op)
                    /\ calls[c].log[i].st = "ok" <=> ~calls[c].failing

\* a delete whose event a registered notification session received
C4_Witness ==
    \E k \in DOMAIN published : \E c \in published[k].notif :
        /\ published[k].type = "TASK_DELETED"
        /\ ~calls[c].failing /\ ReceivedOnce(c, k)

\* C5: a StreamTasks or StreamNotifications call opened with a missing or
\* invalid token has been ended by the server and nothing was ever written
\* to it.
C5_InvalidTokenStreamGetsNothing ==
    \A c \in DOMAIN calls :
        (calls[c].kind \in {"tasks", "notif"} /\ ~validateToken(calls[c].token).ok) =>
            calls[c].ended /\ calls[c].log = <<>>

Registered == Range(streamingSessions) \cup Range(taskStreams) \cup Range(chatClients)

\* closed by the server's call.end() or by an 'end' or 'error' signal
Closed(c) == calls[c].ended \/ calls[c].sigs > 0

\* C6: a stream that has reached CLOSED (client end, server-initiated end
\* after an invalid credential, transport error) is in no partition map.
C6_ClosedIsUnregistered ==
    \A c \in DOMAIN calls : Closed(c) => c \notin Registered

\* C7: a terminal signal ('end' or 'error') on a call that already had one
\* leaves streamingSessions, taskStreams and chatClients unchanged.
C7_SecondCloseIsNoOp ==
    [][\A c \in DOMAIN calls :
          (calls[c].sigs >= 1 /\ calls'[c].sigs = calls[c].sigs + 1) =>
              UNCHANGED <<streamingSessions, taskStreams, chatClients>>]_vars

\* a call signalled twice while another session of its partition is registered
C7_Witness ==
    \E c, d \in DOMAIN calls :
        /\ calls[c].sigs >= 2 /\ c # d /\ calls[d].kind = calls[c].kind
        /\ d \in Registered

ChatEntries(c, k) ==
    {i \in DOMAIN calls[c].log :
        calls[c].log[i].src.k = "chat" /\ calls[c].log[i].src.n = k}

\* C8: for every chat message relayed, each other session that was in
\* chatClients at that moment was written exactly one copy, with the sender's
\* user_id and text and the server's timestamp, which it received unless its
\* own write threw; the sender's call and every other call were written none.
C8_ChatRelay ==
    \A k \in DOMAIN chatSent : \A c \in DOMAIN calls :
        /\ Cardinality(ChatEntries(c, k)) = IF c \in chatSent[k].peers THEN 1 ELSE 0
        /\ \A i \in ChatEntries(c, k) :
              /\ calls[c].log[i].m = [user_id |-> chatSent[k].message.user_id,
                                      message |-> chatSent[k].message.message,
                                      timestamp |-> chatSent[k].at]
              /\ calls[c].log[i].st = "ok" <=> ~calls[c].failing

\* a message relayed to a healthy peer under a server timestamp that differs
\* from the one the client sent
C8_Witness ==
    \E k \in DOMAIN chatSent : \E c \in chatSent[k].peers :
        /\ ~calls[c].failing /\ chatSent[k].message.timestamp # chatSent[k].at
        /\ \E i \in ChatEntries(c, k) : calls[c].log[i].st = "ok"

\* the stubs handed out for a service after initialize()
PicksAfterInit(service) ==
    SelectSeq(picks, LAMBDA p : p.service = service /\ p.init)

InRotation(service) ==
    \A i \in DOMAIN PicksAfterInit(service) :
        PicksAfterInit(service)[i].stub =
            Stub(service, servers[((i - 1) % Len(servers)) + 1])

\* C9: after initialize() the task stubs are handed out in configuration
\* order, wrapping to the first after the last, and so are the auth stubs,
\* each service by its own cursor.
C9_RoundRobin == InRotation("tasks") /\ InRotation("auth")

\* C10: once the pools have size N >= 1 both cursors are integers in 0..N-1.
C10_CursorInRange ==
    (Len(authClients) >= 1 /\ Len(taskClients) >= 1) =>
        /\ currentAuthIndex \in 0..(Len(authClients) - 1)
        /\ currentTaskIndex \in 0..(Len(taskClients) - 1)

\* C11: on a client with its N stubs configured, after k calls have been
\* started, completed or still in flight, the task cursor equals k mod N and
\* every call started since initialize() obtained one of the N task stubs.
C11_AtomicSelectAndAdvance ==
    initialized =>
        /\ currentTaskIndex = Len(PicksAfterInit("tasks")) % Len(taskClients)
        /\ \A p \in Range(PicksAfterInit("tasks")) : p.stub \in Range(taskClients)

\* C12: a call contacts no replica but the one it selected; a call whose
\* selected replica is down fails with the error of that replica, has
\* contacted that replica only, has advanced the cursor by one as a call
\* that succeeds has, and the call N calls later selects that replica again.
C12_NoFailover ==
    \A i \in DOMAIN picks :
        LET p == picks[i] IN
        /\ p.contacted \subseteq {p.stub.addr}
        /\ p.stub # UndefinedStub =>
              /\ p.contacted = {p.stub.addr}
              /\ p.next = (p.index + 1) % Len(servers)
        /\ p.outcome = "error" =>
              /\ p.from = p.stub.addr
              /\ (i + Len(servers)) \in DOMAIN picks =>
                    picks[i + Len(servers)].stub = p.stub

\* a call failed on a down replica with another replica configured, a later
\* call went to the other replica and succeeded, and the down replica was
\* selected again on its turn and failed again
C12_Witness ==
    \E i \in DOMAIN picks :
        /\ Len(servers) >= 2
        /\ picks[i].outcome = "error"
        /\ (i + Len(servers)) \in DOMAIN picks
        /\ picks[i + Len(servers)].outcome = "error"
        /\ picks[i + Len(servers)].from = picks[i].stub.addr
        /\ picks[i + 1].outcome = "ok"

\* C13: a unary call whose store operation failed is answered INTERNAL,
\* ValidateToken included and whatever code the store's error carries, and a
\* call is answered UNAUTHENTICATED only when its credential is missing,
\* invalid or expired.
C13_StoreFaultIsInternal ==
    \A r \in DOMAIN reqs :
        /\ reqs[r].fault => reqs[r].resp = INTERNAL
        /\ reqs[r].resp = UNAUTHENTICATED => ~jwtVerify(reqs[r].token).ok

\* the priority the interface names for a code
Decoded(code) ==
    CASE code = 0 -> "low"
      [] code = 1 -> "medium"
      [] code = 2 -> "high"
      [] code = 3 -> "urgent"
      [] OTHER -> "medium"

\* C14: a create whose request carries priority code 0, 1, 2 or 3 builds a
\* task of priority low, medium, high or urgent; with any other code, with
\* null or with none it builds one of priority medium; the priority is never
\* outside the four and the create is never refused for it.
C14_PriorityDecode ==
    \A r \in DOMAIN reqs :
        reqs[r].op = "create" =>
            /\ reqs[r].resp = OK
            /\ reqs[r].task.priority \in {"low", "medium", "high", "urgent"}
            /\ reqs[r].task.priority =
                    IF reqs[r].request.priority.t = "value"
                    THEN Decoded(Val(reqs[r].request.priority)) ELSE "medium"
            /\ reqs[r].task_id \in DOMAIN tasks =>
                    tasks[reqs[r].task_id].priority = reqs[r].task.priority

\* a task created with code 99 stored as medium and one created with code 3
\* stored as urgent
C14_Witness ==
    \E r, q \in DOMAIN reqs :
        /\ reqs[r].request.priority = Some(99) /\ reqs[r].pc = "done"
        /\ tasks[reqs[r].task_id].priority = "medium"
        /\ reqs[q].request.priority = Some(3) /\ reqs[q].pc = "done"
        /\ tasks[reqs[q].task_id].priority = "urgent"

\* a GetTaskStats call answered with no write to the table since its first
\* query
Settled(r) ==
    /\ reqs[r].op = "stats" /\ reqs[r].pc = "done" /\ reqs[r].resp = OK
    /\ reqs[r].at = commits

Owned(user) == {k \in DOMAIN tasks : tasks[k].userId = user}

CountsOfCaller(r) ==
    /\ reqs[r].stats.total = Cardinality(Owned(reqs[r].user))
    /\ reqs[r].stats.completed =
            Cardinality({k \in Owned(reqs[r].user) : tasks[k].completed})
    /\ reqs[r].stats.pending =
            Cardinality({k \in Owned(reqs[r].user) : ~tasks[k].completed})

C17_FeedOwnerScoped ==
    \A c \in DOMAIN calls :
        (calls[c].kind = "tasks" /\ validateToken(calls[c].token).ok) =>
            \A i \in DOMAIN calls[c].log :
                calls[c].log[i].st = "ok" =>
                    calls[c].log[i].m.user_id = validateToken(calls[c].token).id

\* C18: in a task-feed session opened with a valid token no broadcast task
\* is written while the snapshot is still to be written, and every snapshot
\* task is written before every broadcast task.
C18_SnapshotBeforeTail ==
    \A c \in DOMAIN calls :
        (calls[c].kind = "tasks" /\ validateToken(calls[c].token).ok) =>
            /\ calls[c].snap = "pending" =>
                    \A i \in DOMAIN calls[c].log : calls[c].log[i].src.k # "event"
            /\ \A i, j \in DOMAIN calls[c].log :
                    (/\ calls[c].log[i].src.k = "event" /\ calls[c].log[i].st = "ok"
                     /\ calls[c].log[j].src.k = "snapshot" /\ calls[c].log[j].st = "ok")
                        => j < i

\* C19: a successful create, update or delete publishes one event, and for
\* one published event the broadcaster makes at most one write to each
\* notification session and at most one to each task-feed session, none to
\* a session that is not registered.
C19_AtMostOnePerMutation ==
    /\ \A k, l \in DOMAIN published : published[k].req = published[l].req => k = l
    /\ \A k \in DOMAIN published : \A c \in DOMAIN calls :
          /\ Cardinality(EventEntries(c, k)) <= 1
          /\ c \notin (published[k].notif \cup published[k].feed) =>
                EventEntries(c, k) = {}

\* a mutation published while a notification session and a task-feed
\* session were registered, each session written its event once
C19_Witness ==
    \E k \in DOMAIN published : \E c \in published[k].notif, d \in published[k].feed :
        /\ Cardinality(EventEntries(c, k)) = 1 /\ Cardinality(EventEntries(d, k)) = 1
        /\ \A i \in EventEntries(c, k) : calls[c].log[i].st = "ok"
        /\ \A i \in EventEntries(d, k) : calls[d].log[i].st = "ok"

\* C20: a session registered at the publish of two events was written both,
\* the one published first before the other, and the events written to a
\* session are in publish order.
C20_DeliveryInPublishOrder ==
    \A c \in DOMAIN calls :
        /\ \A k, l \in DOMAIN published :
              (/\ k < l
               /\ c \in published[k].notif \cup published[k].feed
               /\ c \in published[l].notif \cup published[l].feed) =>
                  /\ EventEntries(c, k) # {} /\ EventEntries(c, l) # {}
                  /\ \A i \in EventEntries(c, k), j \in EventEntries(c, l) : i < j
        /\ \A i, j \in DOMAIN calls[c].log :
              (/\ i < j /\ calls[c].log[i].src.k = "event"
               /\ calls[c].log[j].src.k = "event") =>
                  calls[c].log[i].src.n < calls[c].log[j].src.n

\* a session that received two events, the first published first
C20_Witness ==
    \E c \in DOMAIN calls : \E k, l \in DOMAIN published :
        /\ k < l /\ c \in published[k].notif /\ c \in published[l].notif
        /\ \E i \in EventEntries(c, k), j \in EventEntries(c, l) :
              i < j /\ calls[c].log[i].st = "ok" /\ calls[c].log[j].st = "ok"

\* C21: a step in which notifyStreams publishes an event, whether its
\* writes throw or not, leaves streamingSessions, taskStreams and
\* chatClients unchanged, and a session leaves the registry only in a step
\* that is an 'end' or 'error' signal on its own call.
C21_BroadcasterNeverEvicts ==
    [][/\ published' # published =>
            UNCHANGED <<streamingSessions, taskStreams, chatClients>>
       /\ \A c \in Registered :
            c \notin Registered' => calls'[c].sigs = calls[c].sigs + 1]_vars

\* a session whose write threw at a publish is still registered, and a
\* second publish wrote to it again
C21_Witness ==
    \E c \in Registered : \E k, l \in DOMAIN published :
        /\ k < l /\ calls[c].failing /\ calls[c].sigs = 0
        /\ \E i \in EventEntries(c, k) : calls[c].log[i].st = "threw"
        /\ \E j \in EventEntries(c, l) : calls[c].log[j].st = "threw"

\* the token a call carries in its metadata as  authorization: Bearer <token>
BearerOf(authorization) ==
    IF authorization.t = "value" /\ Len(Val(authorization)) = 2
            /\ Val(authorization)[1] = "Bearer "
    THEN Val(authorization)[2] ELSE ""

\* C22: a CreateTask that carries a valid token in its request body, or no
\* token in the body and a valid one in the metadata, is not refused as
\* unauthenticated.
C22_BothPathsHonored ==
    \A r \in DOMAIN reqs :
        (\/ jwtVerify(reqs[r].token).ok
         \/ reqs[r].token = "" /\ jwtVerify(BearerOf(reqs[r].request.authorization)).ok)
            => reqs[r].resp # UNAUTHENTICATED

\* the call that arrives in this step, if one does
Arrives(r) == r = Len(reqs) + 1 /\ Len(reqs') = r

\* C23: a call of a task handler whose token is missing or invalid is
\* answered UNAUTHENTICATED in the step it arrives in, also when its title is
\* blank; that step leaves the tasks table and the three session Maps
\* unchanged, writes to no session and publishes no event, and the call does
\* nothing afterwards.
C23_InvalidTokenUnauthenticated ==
    [][\A r \in 1..(Len(reqs) + 1) :
          /\ (Arrives(r) /\ ~jwtVerify(reqs'[r].token).ok) =>
                /\ reqs'[r].pc = "done" /\ reqs'[r].resp = UNAUTHENTICATED
                /\ UNCHANGED <<tasks, commits, streamingSessions, taskStreams,
                               chatClients, calls, published>>
          /\ (r \in DOMAIN reqs /\ ~jwtVerify(reqs[r].token).ok) =>
                reqs'[r] = reqs[r]]_vars

\* a create without token and with a blank title answered UNAUTHENTICATED
\* while a task is stored
C23_Witness ==
    \E r \in DOMAIN reqs :
        /\ reqs[r].op = "create" /\ reqs[r].token = ""
        /\ reqs[r].request.title = Some(<<" ">>)
        /\ reqs[r].resp = UNAUTHENTICATED /\ tasks # EmptyMap

\* the row of id task_id is stored and belongs to userId
OwnsRow(userId, task_id) ==
    task_id \in DOMAIN tasks /\ tasks[task_id].userId = userId

\* C24: an UpdateTask or DeleteTask with a valid token and the id of a task
\* that is not stored or belongs to another user is answered NOT_FOUND in the
\* step it arrives in, with the table, the sessions and the published events
\* unchanged; a GetTask answers NOT_FOUND when its SELECT finds such an id and
\* otherwise returns a task of the caller; a GetTasks returns rows of the
\* caller only; and a stored row is changed or removed only by a step of an
\* update or delete of the user who owns it.
C24_TenantIsolation ==
    [][/\ \A r \in 1..(Len(reqs) + 1) :
            /\ (/\ Arrives(r) /\ reqs'[r].op \in {"update", "delete"}
                /\ jwtVerify(reqs'[r].token).ok
                /\ ~OwnsRow(reqs'[r].user, reqs'[r].task_id)) =>
                    /\ reqs'[r].pc = "done" /\ reqs'[r].resp = NOT_FOUND
                    /\ UNCHANGED <<tasks, commits, calls, published>>
            /\ (/\ r \in DOMAIN reqs /\ reqs[r].op \in {"get", "list"}
                /\ reqs[r].pc = "run" /\ reqs'[r].pc = "done" /\ ~reqs'[r].fault) =>
                    /\ (reqs[r].op = "get" /\ ~OwnsRow(reqs[r].user, reqs[r].task_id))
                            => reqs'[r].resp = NOT_FOUND /\ reqs'[r].out = NoTask
                    /\ (reqs[r].op = "get" /\ OwnsRow(reqs[r].user, reqs[r].task_id))
                            => reqs'[r].out.user_id = reqs[r].user
                    /\ \A k \in reqs'[r].rows : OwnsRow(reqs[r].user, k)
                    /\ UNCHANGED <<tasks, commits, calls, published>>
       /\ \A k \in DOMAIN tasks :
            (k \notin DOMAIN tasks' \/ tasks'[k] # tasks[k]) =>
                \E r \in DOMAIN reqs :
                    /\ reqs[r].op \in {"update", "delete"} /\ reqs'[r] # reqs[r]
                    /\ reqs[r].task_id = k /\ reqs[r].user = tasks[k].userId]_vars

\* updates, deletes and gets of u2 on a stored task of u1, answered NOT_FOUND
C24_Witness ==
    \E r \in DOMAIN reqs :
        /\ reqs[r].op \in {"update", "delete", "get"} /\ reqs[r].user = "u2"
        /\ reqs[r].resp = NOT_FOUND
        /\ reqs[r].task_id \in DOMAIN tasks /\ tasks[reqs[r].task_id].userId = "u1"

\* the Register calls answered with success
Registered_OK ==
    {r \in DOMAIN reqs : reqs[r].op = "register" /\ reqs[r].pc = "done" /\ reqs[r].resp = OK}

\* C25: a Register that arrives while a stored user has its email or its
\* username is answered ALREADY_EXISTS unless the lookup itself fails, and a
\* stored user is the one of a Register that returned success, so a refused
\* Register has added none; in every reachable
\* state no two stored users share an email or a username, and no two
\* Register calls with the same email or the same username have both
\* returned success.
C25_RegisterUnique ==
    /\ \A r \in DOMAIN reqs :
          (reqs[r].op = "register" /\ reqs[r].pc = "done") =>
              /\ (reqs[r].rows # {} /\ ~reqs[r].fault) => reqs[r].resp = ALREADY_EXISTS
    /\ \A i, j \in DOMAIN users :
          i # j => /\ users[i].email # users[j].email
                   /\ users[i].username # users[j].username
    /\ DOMAIN users = {reqs[r].userData.id : r \in Registered_OK}
    /\ \A r, q \in Registered_OK :
          r # q => /\ reqs[r].userData.email # reqs[q].userData.email
                   /\ reqs[r].userData.username # reqs[q].userData.username

\* C26: the step in which a chat session gets 'end' or 'error' takes it out
\* of chatClients and it stays out; nothing is written to it from then on;
\* and every message relayed is written once to every chat session other
\* than the sender that has had no 'end' or 'error', whoever has left before.
C26_ChatLeaves ==
    [][/\ \A c \in DOMAIN calls :
            calls[c].kind = "chat" =>
                /\ calls'[c].sigs > 0 => c \notin Range(chatClients')
                /\ calls[c].sigs > 0 => calls'[c].log = calls[c].log
       /\ chatSent' # chatSent =>
            \A d \in DOMAIN calls :
                (/\ calls[d].kind = "chat" /\ calls[d].sigs = 0
                 /\ d # chatSent'[Len(chatSent')].from) =>
                    /\ Len(calls'[d].log) = Len(calls[d].log) + 1
                    /\ LET e == calls'[d].log[Len(calls'[d].log)]
                       IN  /\ e.src = [k |-> "chat", n |-> Len(chatSent'), ver |-> 0]
                           /\ e.m.message = chatSent'[Len(chatSent')].message.message
                           /\ e.st = IF calls[d].failing THEN "threw" ELSE "ok"]_vars

\* of three chat sessions one has left with nothing written to it, and a
\* message sent afterwards has reached the one that stayed
C26_Witness ==
    \E a, d \in DOMAIN calls : \E k \in DOMAIN chatSent :
        /\ calls[a].kind = "chat" /\ calls[a].sigs > 0 /\ calls[a].log = <<>>
        /\ a < chatSent[k].from /\ a < d /\ a \notin chatSent[k].peers
        /\ d \in chatSent[k].peers /\ ~calls[d].failing
        /\ \E i \in ChatEntries(d, k) : calls[d].log[i].st = "ok"

\* the places a call handle is registered at: the Map, by the kind of
\* session it holds, and the session id
Slots(c) ==
    {<<"notif", id>> : id \in {x \in DOMAIN streamingSessions : streamingSessions[x] = c}}
    \cup {<<"tasks", id>> : id \in {x \in DOMAIN taskStreams : taskStreams[x] = c}}
    \cup {<<"chat", id>> : id \in {x \in DOMAIN chatClients : chatClients[x] = c}}

\* C27: a call handle opened by streamNotifications, streamTasks or chat is
\* registered at exactly one place, the Map of its handler under the session
\* id the handler drew, from its opening until its first 'end' or 'error',
\* and at no place afterwards.
C27_OnePartition ==
    \A c \in DOMAIN calls :
        Slots(c) = IF calls[c].sigs = 0 THEN {<<calls[c].kind, calls[c].id>>} ELSE {}

\* a session of each kind registered at once
C27_Witness ==
    \E a, b, c \in Registered :
        calls[a].kind = "notif" /\ calls[b].kind = "tasks" /\ calls[c].kind = "chat"

\* the four values of a task's priority
Priorities == {priorityMap[i] : i \in DOMAIN priorityMap}

\* C28: whatever priority codes the CreateTask and UpdateTask calls carried
\* (absent, null, in range, out of range), every stored task has one of the
\* priorities low, medium, high and urgent.
C28_StoredPriorityClosed ==
    \A k \in DOMAIN tasks : tasks[k].priority \in Priorities

\* a task created urgent and then updated with a code out of range or null,
\* stored with medium
C28_Witness ==
    \E c, u \in DOMAIN reqs :
        /\ reqs[c].op = "create" /\ reqs[c].request.priority = Some(3)
        /\ reqs[u].op = "update" /\ reqs[u].task_id = reqs[c].task.id
        /\ reqs[u].request.priority \in {Some(99), Some(-1), Null}
        /\ reqs[u].pc = "done" /\ reqs[u].resp = OK
        /\ tasks[reqs[u].task_id].priority = "medium"

\* the kind of event a mutating handler publishes
EventKind(op) ==
    CASE op = "create" -> "TASK_CREATED"
      [] op = "update" -> "TASK_UPDATED"
      [] op = "delete" -> "TASK_DELETED"
      [] OTHER -> "none"

\* the events published for the call r
EventsOf(r) == {k \in DOMAIN published : published[k].req = r}

\* C29: notifyStreams is invoked only in the step in which a CreateTask,
\* UpdateTask or DeleteTask answers with success, once, with the kind of the
\* mutation and after the call's write to the table has committed; every
\* such call that has answered with success has exactly one event, and a
\* call that has answered with an error, a read-only call and a call still
\* under way have none.
C29_PublishedIffSucceeded ==
    [][/\ \A k \in DOMAIN published' :
            k \notin DOMAIN published =>
                LET r == published'[k].req
                IN  /\ Len(published') = Len(published) + 1
                    /\ reqs[r].pc # "done" /\ reqs'[r].pc = "done"
                    /\ reqs'[r].resp = OK /\ reqs'[r].ev = k
                    /\ published'[k].type = EventKind(reqs[r].op)
                    /\ reqs[r].commit \in 1..commits
                    /\ published'[k].task.id = reqs[r].task_id
                    /\ reqs[r].op = "delete" => reqs[r].task_id \notin DOMAIN tasks
       /\ \A r \in DOMAIN reqs' :
            Cardinality({k \in DOMAIN published' : published'[k].req = r}) =
                IF /\ reqs'[r].op \in {"create", "update", "delete"}
                   /\ reqs'[r].pc = "done" /\ reqs'[r].resp = OK
                THEN 1 ELSE 0]_vars

\* a create answered with success and published once, next to a create
\* refused for its title, a delete answered NOT_FOUND or a list, not
\* published
C29_Witness ==
    \E d, q \in DOMAIN reqs :
        /\ reqs[d].op = "create" /\ reqs[d].resp = OK /\ reqs[d].pc = "done"
        /\ Cardinality(EventsOf(d)) = 1
        /\ reqs[q].pc = "done" /\ EventsOf(q) = {}
        /\ \/ reqs[q].op = "delete" /\ reqs[q].resp = NOT_FOUND
           \/ reqs[q].op = "list" /\ reqs[q].resp = OK
           \/ reqs[q].op = "create" /\ reqs[q].resp = INVALID_ARGUMENT

\* C30: a unary call has had its callback invoked once when its handler has
\* come to its end and not at all before, whatever path the handler took
\* (success, a refused request, not found, a rejected database call, an
\* invalid token), and a handler that has not come to its end goes on as
\* soon as what it awaits answers.
C30_SingleResponse ==
    \A r \in DOMAIN reqs :
        /\ reqs[r].callbacks = IF reqs[r].pc = "done" THEN 1 ELSE 0
        /\ reqs[r].pc # "done" => ENABLED UnaryStep(r)

\* a login answered PERMISSION_DENIED for a registered user, once
C30_Witness ==
    \E r, q \in DOMAIN reqs :
        /\ reqs[r].op = "register" /\ reqs[r].pc = "done" /\ reqs[r].resp = OK
        /\ reqs[q].op = "login" /\ reqs[q].pc = "done"
        /\ reqs[q].resp = PERMISSION_DENIED /\ reqs[q].callbacks = 1

\* C31: the priority p of every stored task is one of the four and
\* convertFromPriority(convertPriority(p)) = p, with convertPriority(p) the
\* place of p among low, medium, high, urgent counted from 0; and for the
\* code c in 0..3 of every create, convertPriority(convertFromPriority(c)) = c,
\* which is the code a successful create returns.
C31_PriorityCodeRoundTrip ==
    /\ \A k \in DOMAIN tasks :
          /\ priorityMap[convertPriority(tasks[k].priority) + 1] = tasks[k].priority
          /\ convertFromPriority(Some(convertPriority(tasks[k].priority)))
                = tasks[k].priority
    /\ \A r \in DOMAIN reqs : \A c \in 0..3 :
          (reqs[r].op = "create" /\ reqs[r].request.priority = Some(c)) =>
              /\ convertPriority(convertFromPriority(Some(c))) = c
              /\ (reqs[r].pc = "done" /\ reqs[r].resp = OK) => reqs[r].out.priority = c

\* the calls of the given kinds
CallsOf(kinds) == {c \in DOMAIN calls : calls[c].kind \in kinds}

\* C32: relaying a chat message writes to chat sessions only and leaves the
\* tasks table, the published events and the Maps of the notification and
\* task-feed sessions unchanged; publishing a mutation event writes to
\* notification and task-feed sessions only; so a chat session holds chat
\* messages only and the other sessions hold none.
C32_PartitionIsolation ==
    [][/\ chatSent' # chatSent =>
            /\ \A c \in CallsOf({"notif", "tasks"}) : calls'[c] = calls[c]
            /\ UNCHANGED <<tasks, commits, published, streamingSessions, taskStreams>>
       /\ published' # published =>
            /\ \A c \in CallsOf({"chat"}) : calls'[c] = calls[c]
            /\ UNCHANGED <<chatSent, chatClients>>
       /\ \A c \in DOMAIN calls' : \A i \in DOMAIN calls'[c].log :
            (calls'[c].log[i].src.k = "chat") <=> (calls'[c].kind = "chat")]_vars

\* an event published and a chat message relayed while a notification
\* session, a task-feed session and a chat session other than the sender
\* were registered: the first two hold the event alone and the third the
\* message alone
C32_Witness ==
    \E n, t, c \in DOMAIN calls :
        /\ calls[n].kind = "notif" /\ calls[t].kind = "tasks" /\ calls[c].kind = "chat"
        /\ Len(published) = 1 /\ n \in published[1].notif /\ t \in published[1].feed
        /\ Len(chatSent) = 1 /\ c \in chatSent[1].peers
        /\ Len(calls[n].log) = 1 /\ calls[n].log[1].src.k = "event"
        /\ Len(calls[t].log) = 1 /\ calls[t].log[1].src.k = "event"
        /\ Len(calls[c].log) = 1 /\ calls[c].log[1].src.k = "chat"


(***************************************************************************)
(* AuthInterceptor.createInterceptor applied to calls: every call that     *)
(* reaches the interceptor runs start once, with the authorization header  *)
(* of its metadata and the options the interceptor was built with.         *)
(***************************************************************************)
MaxInterceptedCalls == 2

AuthHeaders ==
    {Undefined, Some(<<>>), Some(<<"Bearer ", "jwt-u1">>), Some(<<"Bearer ", "jwt-u2">>),
     Some(<<"jwt-u1">>), Some(<<"Bearer ", "garbage">>), Some(<<"Bearer ", "Bearer ", "jwt-u1">>)}

InterceptorCalls == {Undefined, Some([user |-> ""])}

interceptorStart(authHeader, call) ==
    /\ budget > 0
    /\ budget' = budget - 1
    /\ reqs' = Append(reqs, [op |-> "intercept", authorization |-> authHeader,
                             options |-> call, result |-> start(authHeader, call)])
    /\ UNCHANGED <<tasks, users, listsDb, commits, streamingSessions, taskStreams, chatClients,
                   calls, uuid, now, published, chatSent>>
    /\ UNCHANGED clientVars

InterceptorNext ==
    \E authHeader \in AuthHeaders, call \in InterceptorCalls :
        interceptorStart(authHeader, call)

InterceptorInit == ServerInit(MaxInterceptedCalls) /\ GrpcClient(SubSeq(Addresses, 1, 3))

InterceptorSpec == InterceptorInit /\ [][InterceptorNext]_vars

\* C33: the interceptor invokes next exactly when the authorization header is
\* present and its token verifies; otherwise it gives the listener one
\* UNAUTHENTICATED status and does not invoke next; a forwarded call carries
\* the decoded identity
C33_ForwardsIffVerified ==
    \A r \in DOMAIN reqs :
        LET q == reqs[r]
            present == q.authorization.t = "value" /\ Val(q.authorization) # <<>>
            verifies == present /\ jwtVerify(StripBearer(Val(q.authorization))).ok
        IN  /\ q.result.next <=> verifies
            /\ ~q.result.next => q.result.statuses = <<UNAUTHENTICATED>>
            /\ q.result.next =>
                   /\ q.result.statuses = <<>>
                   /\ q.result.call.t = "value"
                   /\ Val(q.result.call).user =
                          jwtVerify(StripBearer(Val(q.authorization))).id


(***************************************************************************)
(* The client over several replicas.  Every replica is a process of its    *)
(* own with its own TaskService, whose constructor makes the three Maps;   *)
(* the notification sessions of the replica at an address are the          *)
(* StreamNotifications calls the client dispatched to that address.  A     *)
(* client call is taken here together with the handler of the replica it   *)
(* reaches and with the events that handler writes.                        *)
(***************************************************************************)
\* this.streamingSessions of the TaskService of the replica at addr, as the
\* calls of the client that were set on it
streamingSessionsAt(addr) ==
    {i \in DOMAIN picks : /\ picks[i].method = "StreamNotifications"
                          /\ picks[i].stub # UndefinedStub
                          /\ picks[i].stub.addr = addr}

ReplicaCall(client, method, outcome) ==
    [service |-> "tasks", stub |-> client, method |-> method, init |-> initialized,
     outcome |-> IF client = UndefinedStub THEN "TypeError" ELSE outcome,
     token |-> currentToken, received |-> <<>>]

\* login() answered with success: the token is kept
clientLogin ==
    /\ ~clientBusy
    /\ LET client == At(authClients, currentAuthIndex)
       IN  /\ currentAuthIndex' = Advance(currentAuthIndex, Len(authClients))
           /\ picks' = Append(picks, [ReplicaCall(client, "Login", "ok")
                                        EXCEPT !.service = "auth"])
           /\ currentToken' = IF client = UndefinedStub THEN currentToken ELSE "jwt-u1"
    /\ UNCHANGED <<servers, authClients, taskClients, currentTaskIndex, currentIndex,
                   initialized>>

\* client.streamNotifications(): the replica taken sets the call on its own
\* streamingSessions
clientStreamNotifications ==
    /\ ~clientBusy
    /\ LET client == At(taskClients, currentTaskIndex)
       IN  /\ currentTaskIndex' = Advance(currentTaskIndex, Len(taskClients))
           /\ picks' = Append(picks, ReplicaCall(client, "StreamNotifications", "open"))
    /\ UNCHANGED <<servers, authClients, taskClients, currentAuthIndex, currentIndex,
                   currentToken, initialized>>

\* client.createTask({title: 'a'}): createTask of the replica taken checks
\* the token, stores the task and runs notifyStreams over its own
\* streamingSessions; an event is named by the position of its mutation
clientCreateTask ==
    /\ ~clientBusy
    /\ LET client == At(taskClients, currentTaskIndex)
           accepted == client # UndefinedStub /\ validateToken(currentToken).ok
           event == Len(picks) + 1
           hit == IF accepted THEN streamingSessionsAt(client.addr) ELSE {}
           written == [i \in DOMAIN picks |->
                          IF i \in hit
                          THEN [picks[i] EXCEPT !.received = Append(@, event)]
                          ELSE picks[i]]
       IN  /\ currentTaskIndex' = Advance(currentTaskIndex, Len(taskClients))
           /\ picks' = Append(written,
                   ReplicaCall(client, "CreateTask",
                               IF accepted THEN "ok" ELSE "UNAUTHENTICATED"))
    /\ UNCHANGED <<servers, authClients, taskClients, currentAuthIndex, currentIndex,
                   currentToken, initialized>>

ReplicaNext ==
    \/ initialize /\ ServerIdle
    \/ clientLogin /\ ServerIdle
    \/ clientStreamNotifications /\ ServerIdle
    \/ clientCreateTask /\ ServerIdle

ReplicaSpec == ClientInit /\ [][ReplicaNext]_vars

\* C34: with two or more replicas, a notification stream opened through the
\* client has received the event of every mutation the client performed
\* after it
C34_StreamSeesOwnMutations ==
    Len(servers) >= 2 =>
        \A i \in DOMAIN picks, j \in DOMAIN picks :
            /\ picks[i].method = "StreamNotifications" /\ picks[i].outcome = "open"
            /\ picks[j].method = "CreateTask" /\ picks[j].outcome = "ok"
            /\ i < j
            => \E k \in DOMAIN picks[i].received : picks[i].received[k] = j


\* C35: every GetTaskStats response is consistent in itself, also when other
\* calls write the table while it runs: total = completed + pending, and
\* completion_rate lies in 0..1 and is completed / total to the nearest
\* 0.0001 (0 when total is 0)
C35_StatsConsistent ==
    \A r \in DOMAIN reqs :
        reqs[r].op = "stats" /\ reqs[r].pc = "done" /\ reqs[r].resp = OK =>
            LET stats == reqs[r].stats
                d == stats.completion_rate * stats.total - 10000 * stats.completed
            IN  /\ stats.total = stats.completed + stats.pending
                /\ stats.completion_rate \in 0..10000
                /\ IF stats.total = 0 THEN stats.completion_rate = 0
                   ELSE -stats.total < 2 * d /\ 2 * d <= stats.total


\* C36: the UPDATE of an UpdateTask call leaves every field of the row that
\* the request does not carry (undefined or null) as it was stored before,
\* title, description, completed and priority alike, and never changes the id
\* or the owner of the row
C36_UpdateChangesOnlySupplied ==
    [][\A r \in DOMAIN reqs :
          reqs[r].op = "update" /\ reqs[r].pc = "run" /\ reqs'[r].pc = "reread" =>
              LET before == tasks[reqs[r].task_id]
                  after == tasks'[reqs[r].task_id]
                  request == reqs[r].request
              IN  /\ IsNullish(request.title) => after.title = before.title
                  /\ IsNullish(request.description) =>
                         after.description = before.description
                  /\ IsNullish(request.completed) => after.completed = before.completed
                  /\ IsNullish(request.priority) => after.priority = before.priority
                  /\ after.id = before.id /\ after.userId = before.userId]_vars


(***************************************************************************)
(* The title scenarios: creates and updates of one user with titles that   *)
(* are absent, empty, blank, padded and plain.                             *)
(***************************************************************************)
MaxTitleEvents == 2

TitleInputs ==
    {Undefined, Null, Some(<<>>), Some(<<" ">>), Some(<<" ", "b">>), Some(<<"b">>)}

TitleNext ==
    \/ \E title \in TitleInputs : createTask("jwt-u1", title, Undefined, Some(1))
    \/ \E r \in DOMAIN reqs : createTaskInsert(r)
    \/ \E r \in DOMAIN reqs : createTaskFinish(r)
    \/ \E task_id \in DOMAIN tasks, title \in TitleInputs :
            updateTask("jwt-u1", task_id, title, Undefined, Undefined, Undefined)
    \/ \E r \in DOMAIN reqs : updateTaskRun(r)
    \/ \E r \in DOMAIN reqs : updateTaskFinish(r)

TitleInit == ServerInit(MaxTitleEvents) /\ GrpcClient(SubSeq(Addresses, 1, 3))

TitleSpec == TitleInit /\ [][TitleNext]_vars

\* a title with no character other than spaces
IsBlank(title) == Trim(title) = <<>>

\* C37: every stored task has a title that is not empty, not blank and
\* trimmed; a create whose title is absent or blank is answered
\* INVALID_ARGUMENT, and an update whose title is blank is answered
\* INVALID_ARGUMENT or writes the title the row had
C37_StoredTitleNotBlank ==
    /\ \A k \in DOMAIN tasks :
            ~IsBlank(tasks[k].title) /\ Trim(tasks[k].title) = tasks[k].title
    /\ \A r \in DOMAIN reqs :
            LET title == reqs[r].request.title
                blank == title.t = "value" /\ IsBlank(Val(title))
            IN  /\ reqs[r].op = "create" /\ reqs[r].resp # UNAUTHENTICATED
                   /\ (IsNullish(title) \/ blank)
                   => reqs[r].resp = INVALID_ARGUMENT
                /\ reqs[r].op = "update" /\ blank /\ reqs[r].task # NoRow
                   => \/ reqs[r].resp = INVALID_ARGUMENT
                      \/ reqs[r].upd.title = reqs[r].task.title


\* C38: calls made before initialize() leave the rotation cursors usable:
\* once initialize() has run on N >= 1 servers both cursors are in 0..N-1,
\* whatever was called before, and every getNextAuthClient and
\* getNextTaskClient after it returned one of the N stubs of its service
C38_PreInitializeCallsHarmless ==
    initialized =>
        /\ currentAuthIndex \in 0..(Len(servers) - 1)
        /\ currentTaskIndex \in 0..(Len(servers) - 1)
        /\ \A i \in DOMAIN picks :
                picks[i].init =>
                    /\ picks[i].stub # UndefinedStub
                    /\ picks[i].stub \in
                           Range(IF picks[i].service = "auth" THEN authClients
                                 ELSE taskClients)


(***************************************************************************)
(* ListService: the shopping lists of the list service.  A list document   *)
(* is kept with its id, owner, name, status, items and summary; an item    *)
(* with its itemId, quantity, estimatedPrice and purchased flag (names,    *)
(* units, notes, metadata and timestamps are left out).  The JsonDatabase  *)
(* behind this.listsDb hands findById's caller either the stored document  *)
(* itself or a copy of it (listsDb.copies); both are covered.  Every await *)
(* of a handler is a step of its own.                                      *)
(***************************************************************************)
MaxListEvents == 3

\* the item service: averagePrice of the items GET /items/:id finds
ItemCatalog == ("i1" :> 3) @@ ("i2" :> 5)

NoSummary == [totalItems |-> 0, purchasedItems |-> 0, estimatedTotal |-> 0]

NoList == [id |-> 0, userId |-> "", name |-> "", status |-> "", items |-> <<>>,
           summary |-> NoSummary]

NoBody == [itemId |-> "", quantity |-> Undefined, purchased |-> Undefined,
           name |-> Undefined, status |-> Undefined]

\* list.items.reduce((sum, i) => sum + (i.estimatedPrice * i.quantity), 0)
RECURSIVE reduceTotal(_, _)
reduceTotal(items, sum) ==
    IF items = <<>> THEN sum
    ELSE reduceTotal(Tail(items), sum + Head(items).estimatedPrice * Head(items).quantity)

\* an updateSummary that leaves purchasedItems as it was
updateSummaryKeepPurchased(list) ==
    [list EXCEPT !.summary = [totalItems |-> Len(list.items),
                              purchasedItems |-> list.summary.purchasedItems,
                              estimatedTotal |-> reduceTotal(list.items, 0)]]

\* updateSummary(list)
updateSummary(list) ==
    [list EXCEPT !.summary =
        [totalItems |-> Len(list.items),
         purchasedItems |-> Len(SelectSeq(list.items, LAMBDA i : i.purchased)),
         estimatedTotal |-> reduceTotal(list.items, 0)]]

validStatuses == {"active", "completed", "archived"}

\* a request of the list service: list is the document the handler holds,
\* read is the document as findById found it, status the HTTP status sent
NewListReq(op, user, id, body) ==
    [op |-> op, pc |-> "find", user |-> user, id |-> id, body |-> body,
     list |-> NoList, read |-> NoList, status |-> 0]

listUnchanged == <<tasks, users, commits, streamingSessions, taskStreams, chatClients,
                   calls, now, published, chatSent, clientVars>>

\* createList: the body checked and the document created
createList(user, name, status) ==
    /\ budget > 0 /\ budget' = budget - 1
    /\ LET body == [NoBody EXCEPT !.name = name, !.status = status]
           finalStatus == IF status.t = "value" /\ Val(status) \in validStatuses
                          THEN Val(status) ELSE "active"
           newList == [NoList EXCEPT !.id = uuid + 1, !.userId = user,
                                     !.name = Val(name), !.status = finalStatus]
       IN  IF name.t # "value" \/ Val(name) = ""
           THEN /\ reqs' = Append(reqs, [NewListReq("createList", user, 0, body) EXCEPT
                                            !.pc = "done", !.status = 400])
                /\ UNCHANGED <<listsDb, uuid>>
           ELSE /\ uuid' = uuid + 1
                /\ listsDb' = [listsDb EXCEPT
                                  !.documents = MapSet(@, newList.id, newList)]
                /\ reqs' = Append(reqs, [NewListReq("createList", user, newList.id, body)
                                            EXCEPT !.pc = "done", !.status = 201,
                                                   !.list = newList])
    /\ UNCHANGED listUnchanged

\* a handler that starts with await this.listsDb.findById(id)
listCall(op, user, id, body) ==
    /\ budget > 0 /\ budget' = budget - 1
    /\ reqs' = Append(reqs, NewListReq(op, user, id, body))
    /\ UNCHANGED <<listsDb, uuid, listUnchanged>>

addItem(user, id, itemId, quantity) ==
    listCall("addItem", user, id, [NoBody EXCEPT !.itemId = itemId, !.quantity = quantity])

updateItemInList(user, id, itemId, quantity, purchased) ==
    listCall("updateItemInList", user, id,
             [NoBody EXCEPT !.itemId = itemId, !.quantity = quantity,
                            !.purchased = purchased])

removeItemFromList(user, id, itemId) ==
    listCall("removeItemFromList", user, id, [NoBody EXCEPT !.itemId = itemId])

updateList(user, id, name, status) ==
    listCall("updateList", user, id, [NoBody EXCEPT !.name = name, !.status = status])

deleteList(user, id) == listCall("deleteList", user, id, NoBody)

\* items.findIndex(i => i.itemId === itemId), from 1, 0 when there is none
findIndex(items, itemId) ==
    LET at == {i \in DOMAIN items : items[i].itemId = itemId}
    IN  IF at = {} THEN 0 ELSE CHOOSE i \in at : \A j \in at : i <= j

\* updateItemInList between its two awaits
updateItemInListApply(list, body) ==
    LET idx == findIndex(list.items, body.itemId)
        item == list.items[idx]
        item1 == IF body.quantity.t # "undefined"
                 THEN [item EXCEPT !.quantity = Val(body.quantity)] ELSE item
        item2 == IF body.purchased.t # "undefined"
                 THEN [item1 EXCEPT !.purchased = Val(body.purchased)] ELSE item1
    IN  updateSummary([list EXCEPT !.items[idx] = item2])

\* removeItemFromList between its two awaits
removeItemFromListApply(list, body) ==
    updateSummary([list EXCEPT
                      !.items = SelectSeq(@, LAMBDA i : i.itemId # body.itemId)])

\* updateList between its two awaits
updateListApply(list, body) ==
    [list EXCEPT !.name = IF body.name.t # "undefined" THEN Val(body.name) ELSE @,
                 !.status = IF body.status.t # "undefined" THEN Val(body.status) ELSE @]

\* addItem after the item service has answered
addItemApply(list, body) ==
    updateSummary([list EXCEPT !.items = Append(@,
        [itemId |-> body.itemId,
         quantity |-> IF body.quantity.t = "undefined" THEN 1 ELSE Val(body.quantity),
         estimatedPrice |-> ItemCatalog[body.itemId], purchased |-> FALSE])])

\* the document a handler holds: its copy, or the stored document itself
Held(r) ==
    IF listsDb.copies THEN reqs[r].list ELSE listsDb.documents[reqs[r].id]

\* a handler changes the document it holds and goes on to its next await
Holds(r, list, pc) ==
    /\ reqs' = [reqs EXCEPT ![r].list = list, ![r].pc = pc,
                            ![r].read = IF reqs[r].pc = "find" THEN
                                            listsDb.documents[reqs[r].id] ELSE @]
    /\ listsDb' = IF listsDb.copies THEN listsDb
                  ELSE [listsDb EXCEPT !.documents[reqs[r].id] = list]

Responds(r, status) ==
    /\ reqs' = [reqs EXCEPT ![r].pc = "done", ![r].status = status]
    /\ UNCHANGED listsDb

\* findById answers and the handler runs to its next await
listsDbFindById(r) ==
    /\ reqs[r].pc = "find"
    /\ LET q == reqs[r]
           list == IF q.id \in DOMAIN listsDb.documents
                   THEN listsDb.documents[q.id] ELSE NoList
       IN  IF list = NoList \/ list.userId # q.user
           THEN Responds(r, 404)
           ELSE CASE q.op = "addItem" -> Holds(r, list, "item")
                  [] q.op = "updateItemInList" ->
                        IF findIndex(list.items, q.body.itemId) = 0
                        THEN Responds(r, 404)
                        ELSE Holds(r, updateItemInListApply(list, q.body), "update")
                  [] q.op = "removeItemFromList" ->
                        Holds(r, removeItemFromListApply(list, q.body), "update")
                  [] q.op = "updateList" ->
                        IF q.body.status.t # "undefined"
                           /\ ~(q.body.status.t = "value" /\ Val(q.body.status) \in validStatuses)
                        THEN Responds(r, 400)
                        ELSE Holds(r, updateListApply(list, q.body), "update")
                  [] OTHER -> Holds(r, [list EXCEPT !.status = "archived"], "update")
    /\ UNCHANGED <<budget, uuid, listUnchanged>>

\* addItem: the item service answers; for an item it does not know axios
\* throws and the catch answers 500
itemServiceGet(r) ==
    /\ reqs[r].pc = "item"
    /\ IF reqs[r].body.itemId \notin DOMAIN ItemCatalog
       THEN Responds(r, 500)
       ELSE Holds(r, addItemApply(Held(r), reqs[r].body), "update")
    /\ UNCHANGED <<budget, uuid, listUnchanged>>

\* listsDb.update(id, list) answers: the document is stored whole and the
\* handler responds with it
listsDbUpdate(r) ==
    /\ reqs[r].pc = "update"
    /\ listsDb' = [listsDb EXCEPT !.documents[reqs[r].id] = Held(r)]
    /\ reqs' = [reqs EXCEPT ![r].pc = "done", ![r].status = 200, ![r].list = Held(r)]
    /\ UNCHANGED <<budget, uuid, listUnchanged>>

ListItemIds == {"i1", "i2", "i9"}

ListNext ==
    \/ \E name \in {Undefined, Some("n")} : createList("u1", name, Undefined)
    \/ \E id \in DOMAIN listsDb.documents, itemId \in ListItemIds,
          quantity \in {Undefined, Some(2)} : addItem("u1", id, itemId, quantity)
    \/ \E id \in DOMAIN listsDb.documents, itemId \in ListItemIds,
          quantity \in {Undefined, Some(3)}, purchased \in {Undefined, Some(TRUE)} :
            updateItemInList("u1", id, itemId, quantity, purchased)
    \/ \E id \in DOMAIN listsDb.documents, itemId \in ListItemIds :
            removeItemFromList("u1", id, itemId)
    \/ \E id \in DOMAIN listsDb.documents, status \in {Undefined, Some("completed"), Some("x")} :
            updateList("u1", id, Some("m"), status)
    \/ \E id \in DOMAIN listsDb.documents : deleteList("u1", id)
    \/ \E r \in DOMAIN reqs : listsDbFindById(r)
    \/ \E r \in DOMAIN reqs : itemServiceGet(r)
    \/ \E r \in DOMAIN reqs : listsDbUpdate(r)

ListInit ==
    /\ tasks = EmptyMap /\ users = EmptyMap /\ commits = 0
    /\ \E copies \in BOOLEAN : listsDb = [documents |-> EmptyMap, copies |-> copies]
    /\ streamingSessions = EmptyMap /\ taskStreams = EmptyMap /\ chatClients = EmptyMap
    /\ calls = <<>> /\ reqs = <<>> /\ uuid = 0 /\ now = 0
    /\ published = <<>> /\ chatSent = <<>> /\ budget = MaxListEvents
    /\ GrpcClient(SubSeq(Addresses, 1, 3))

ListSpec == ListInit /\ [][ListNext]_vars


\* the sum of estimatedPrice x quantity over the first n items
RECURSIVE PriceTimesQuantity(_, _)
PriceTimesQuantity(items, n) ==
    IF n = 0 THEN 0
    ELSE PriceTimesQuantity(items, n - 1) + items[n].estimatedPrice * items[n].quantity

\* C39: every stored list has summary.totalItems equal to the number of its
\* items, summary.purchasedItems equal to the number of its purchased items
\* (so at most totalItems) and summary.estimatedTotal equal to the sum of
\* estimatedPrice x quantity over its items
C39_SummaryConsistent ==
    \A id \in DOMAIN listsDb.documents :
        LET list == listsDb.documents[id]
        IN  /\ list.summary.totalItems = Len(list.items)
            /\ list.summary.purchasedItems =
                   Cardinality({i \in DOMAIN list.items : list.items[i].purchased})
            /\ list.summary.purchasedItems <= list.summary.totalItems
            /\ list.summary.estimatedTotal = PriceTimesQuantity(list.items, Len(list.items))

\* a list was created, item i1 (price 3) was added with quantity 2, and the
\* item was then marked purchased: the stored summary is {1, 1, 6}
C39_Witness ==
    \E a, u \in DOMAIN reqs :
        /\ a < u
        /\ reqs[a].op = "addItem" /\ reqs[a].status = 200
        /\ reqs[a].body.quantity = Some(2) /\ reqs[a].body.itemId = "i1"
        /\ reqs[u].op = "updateItemInList" /\ reqs[u].status = 200
        /\ reqs[u].id = reqs[a].id /\ reqs[u].body.purchased = Some(TRUE)
        /\ reqs[u].body.quantity = Undefined
        /\ listsDb.documents[reqs[u].id].summary =
               [totalItems |-> 1, purchasedItems |-> 1, estimatedTotal |-> 6]

\* the item requests made on a list
ItemCallsOn(id) == {r \in DOMAIN reqs : reqs[r].id = id /\ reqs[r].op # "createList"}

\* C40: a list on which only addItem requests were made, all answered, holds
\* one item for each of them that was answered with success, and its
\* summary.totalItems counts them all, however the requests overlapped
C40_NoLostItem ==
    \A id \in DOMAIN listsDb.documents :
        (\A r \in ItemCallsOn(id) : reqs[r].op = "addItem" /\ reqs[r].pc = "done") =>
            LET added == {r \in ItemCallsOn(id) : reqs[r].status = 200}
                list == listsDb.documents[id]
            IN  /\ \A r \in added :
                       \E i \in DOMAIN list.items : list.items[i].itemId = reqs[r].body.itemId
                /\ list.summary.totalItems = Cardinality(added)

====
